---- MODULE Spec2Model ----
(***************************************************************************)
(* A model of ThumbGen-Flask: the thumbnail generator (core/thumbnail.py), *)
(* the resource manager (resources/resource_manager.py) and the request    *)
(* handlers that drive them on one shared generator (app.py).              *)
(*                                                                         *)
(* Strings are sequences of one-character strings, so that split, join,    *)
(* replace and str() are computed and not assumed.                         *)
(***************************************************************************)
EXTENDS Integers, Sequences, FiniteSets, TLC

VARIABLES
    wrapCall,   \* one call of the greedy wrap: arguments and result
    disk,       \* the asset directories, the system's fonts, the platform
    rm,         \* the ResourceManager: its dicts, name lists and lru caches
    wrapLru,    \* the lru_cache of ThumbnailGenerator._wrap_text
    lastCall,   \* the call just made on the resource manager, with its result
    client,     \* how many distinct fonts and images, repeats and requests were sent
    th,         \* per thread, where it stands inside get_pil_font
    gen,        \* the one ThumbnailGenerator of app.py: its style fields
    req,        \* per request thread, the request it is handling
    layout,     \* one call of _add_text's horizontal placement: arguments, result
    handler,    \* one request handler run from the raw form to its response
    preview_cache,  \* the SimpleCache of app.py: cache, access_times, lock
    now,        \* time.time(), in whole seconds
    caller      \* per thread, the SimpleCache method it is in

vars == <<wrapCall, disk, rm, wrapLru, lastCall, client, th, gen, req,
          layout, handler, preview_cache, now, caller>>

appVars == <<layout, handler, preview_cache, now, caller>>

-----------------------------------------------------------------------------
(* Bounds of the model *)

MaxTextLen == 5
MaxWidth == 6
\* calls for a new asset, and repeated calls, after the caches were warmed
MaxFresh == 4
MaxRepeats == 2
\* background files in the bulk catalog
NumBulk == 152

-----------------------------------------------------------------------------
(* Strings *)

\* str(n) of a Python int: decimal digits, a leading '-' when negative.
Digit(d) == <<"0", "1", "2", "3", "4", "5", "6", "7", "8", "9">>[d + 1]

RECURSIVE StrNat(_)
StrNat(n) == IF n < 10 THEN <<Digit(n)>> ELSE StrNat(n \div 10) \o <<Digit(n % 10)>>

Str(n) == IF n < 0 THEN <<"-">> \o StrNat(0 - n) ELSE StrNat(n)

\* s.replace('^', r): every '^' of s replaced by r, everything else kept.
RECURSIVE Replace(_, _)
Replace(s, r) ==
    IF s = <<>> THEN <<>>
    ELSE (IF Head(s) = "^" THEN r ELSE <<Head(s)>>) \o Replace(Tail(s), r)

\* s.split('\n'): the pieces between newlines, empty pieces kept.
RECURSIVE SplitNLFrom(_, _, _)
SplitNLFrom(s, cur, out) ==
    IF s = <<>> THEN Append(out, cur)
    ELSE IF Head(s) = "\n" THEN SplitNLFrom(Tail(s), <<>>, Append(out, cur))
    ELSE SplitNLFrom(Tail(s), Append(cur, Head(s)), out)

SplitNL(s) == SplitNLFrom(s, <<>>, <<>>)

IsSpace(c) == c \in {" ", "\n"}

\* s.split(): the maximal runs of non-whitespace characters, in order.
RECURSIVE SplitWSFrom(_, _, _)
SplitWSFrom(s, cur, out) ==
    IF s = <<>> THEN (IF cur = <<>> THEN out ELSE Append(out, cur))
    ELSE IF IsSpace(Head(s))
         THEN SplitWSFrom(Tail(s), <<>>, IF cur = <<>> THEN out ELSE Append(out, cur))
         ELSE SplitWSFrom(Tail(s), Append(cur, Head(s)), out)

SplitWS(s) == SplitWSFrom(s, <<>>, <<>>)

\* ' '.join(words)
RECURSIVE JoinSp(_)
JoinSp(words) ==
    IF words = <<>> THEN <<>>
    ELSE IF Len(words) = 1 THEN words[1]
    ELSE words[1] \o <<" ">> \o JoinSp(Tail(words))

-----------------------------------------------------------------------------
(* Fonts and glyph metrics *)

\* What ImageFont.truetype / ImageFont.load_default hand back: the face that
\* was opened and the size it was opened at.  load_default takes no size.
TrueType(face, size) == [kind |-> "truetype", face |-> face, size |-> size]
DefaultFont == [kind |-> "default", face |-> "default", size |-> 0]

\* Advance of one character: the built-in bitmap font is fixed-pitch, a
\* TrueType face scales with its size and has a wide 'W'.
Advance(font, c) ==
    IF font.kind = "default" THEN 1
    ELSE font.size * (IF c = "W" THEN 2 ELSE 1)

\* right - left of draw.textbbox((0, 0), s, font=font)
RECURSIVE TextWidth(_, _)
TextWidth(font, s) ==
    IF s = <<>> THEN 0 ELSE Advance(font, Head(s)) + TextWidth(font, Tail(s))

-----------------------------------------------------------------------------
(* ThumbnailGenerator._wrap_text: the greedy wrap *)

\* the test of line 71, on the candidate line test_line = current_line + [word]
ExceedsLastWord(font, current_line, word, max_width) ==
    TextWidth(font, word) > max_width /\ current_line # <<>>

Exceeds(font, current_line, word, max_width) ==
    TextWidth(font, JoinSp(Append(current_line, word))) > max_width
    /\ current_line # <<>>

\* the loop over the words of one paragraph, lines 64-78
RECURSIVE WrapWords(_, _, _, _, _)
WrapWords(font, words, current_line, processed, max_width) ==
    IF words = <<>>
    THEN (IF current_line # <<>> THEN Append(processed, JoinSp(current_line))
          ELSE processed)
    ELSE IF Exceeds(font, current_line, Head(words), max_width)
         THEN WrapWords(font, Tail(words), <<Head(words)>>,
                        Append(processed, JoinSp(current_line)), max_width)
         ELSE WrapWords(font, Tail(words), Append(current_line, Head(words)),
                        processed, max_width)

\* a wrap that runs the paragraphs together before splitting into words
WrapParagraphsJoined(font, paragraphs, processed, max_width) ==
    WrapWords(font, SplitWS(JoinSp(paragraphs)), <<>>, processed, max_width)

\* the loop over the paragraphs, lines 57-80
RECURSIVE WrapParagraphs(_, _, _, _)
WrapParagraphs(font, paragraphs, processed, max_width) ==
    IF paragraphs = <<>> THEN processed
    ELSE WrapParagraphs(font, Tail(paragraphs),
             WrapWords(font, SplitWS(Head(paragraphs)), <<>>, processed, max_width),
             max_width)

WrapLines(font, text, max_width) ==
    WrapParagraphs(font, SplitNL(text), <<>>, max_width)

-----------------------------------------------------------------------------
(* Dictionaries and lru_cache *)

\* A Python dict, in insertion order: a sequence of [k, v] entries.
DictHas(d, k) == \E i \in 1..Len(d) : d[i].k = k
DictGet(d, k) == d[CHOOSE i \in 1..Len(d) : d[i].k = k].v
DictSet(d, k, v) ==
    IF DictHas(d, k)
    THEN [i \in 1..Len(d) |-> IF d[i].k = k THEN [k |-> k, v |-> v] ELSE d[i]]
    ELSE Append(d, [k |-> k, v |-> v])
DictDel(d, k) == SelectSeq(d, LAMBDA e : e.k # k)
DictKeys(d) == [i \in 1..Len(d) |-> d[i].k]
KeySet(d) == {d[i].k : i \in 1..Len(d)}

\* functools.lru_cache: entries from least to most recently used.  A hit
\* moves the entry to the end; a miss on a full cache drops the first one.
LruTouch(lru, k) == Append(DictDel(lru, k), [k |-> k, v |-> DictGet(lru, k)])
LruPut(lru, k, v, maxsize) ==
    IF DictHas(lru, k) THEN lru
    ELSE IF Len(lru) >= maxsize THEN Append(Tail(lru), [k |-> k, v |-> v])
    ELSE Append(lru, [k |-> k, v |-> v])

-----------------------------------------------------------------------------
(* The asset directories and the fonts the system can open *)

\* Names and paths are atomic strings.  A file is [stem, ext, ok, w, h]: ok is
\* whether PIL can decode it, w and h are an image's size (0 for a font).
File(stem, ext, ok, w, h) == [stem |-> stem, ext |-> ext, ok |-> ok, w |-> w, h |-> h]

HasFile(dir, stem, ext) == \E f \in dir : f.stem = stem /\ f.ext = ext
FileAt(dir, stem, ext) == CHOOSE f \in dir : f.stem = stem /\ f.ext = ext

\* file_path.suffix.lower()
LowerExt(ext) ==
    CASE ext = ".TTF" -> ".ttf"
      [] ext = ".PNG" -> ".png"
      [] OTHER -> ext

\* font_name.lower()
LowerName(name) ==
    CASE name = "Impact" -> "impact"
      [] name = "Arial" -> "arial"
      [] name = "MyFont" -> "myfont"
      [] OTHER -> name

BulkStem(i) == "bg" \o ToString(100 + i)

\* Every file stem of the model, in the order sorted() puts strings.
StemOrder ==
    <<"Impact", "MyFont", "beach">> \o [i \in 1..NumBulk |-> BulkStem(i)]
        \o <<"dots", "sky">>

ImageExts == <<".png", ".jpg", ".jpeg", ".gif">>
FontExts == <<".ttf", ".otf">>
SeqSet(q) == {q[i] : i \in 1..Len(q)}

\* ResourceManager._scan_directory: the stem of every file whose lowered
\* extension matches, sorted; a stem comes once per such file
ScanDirectory(dir, extensions) ==
    LET count(stem) == Cardinality({f \in dir : f.stem = stem
                                                /\ LowerExt(f.ext) \in extensions})
        stems == SelectSeq(StemOrder, LAMBDA st : count(st) > 0)
        most == Len(ImageExts) + Len(FontExts)
        slots == [j \in 1..(Len(stems) * most) |->
                     [stem |-> stems[((j - 1) \div most) + 1],
                      copy |-> ((j - 1) % most) + 1]]
        kept == SelectSeq(slots, LAMBDA e : e.copy <= count(e.stem))
    IN  [j \in 1..Len(kept) |-> kept[j].stem]

FontPath(stem, ext) == "static/fonts/" \o stem \o ext

\* lines 40-45: the first of .ttf, .otf that exists is stored; entries
\* already in _font_paths stay
RECURSIVE StoreFontPaths(_, _, _)
StoreFontPaths(font_paths, names, fontdir) ==
    IF names = <<>> THEN font_paths
    ELSE LET n == Head(names)
             next == IF HasFile(fontdir, n, ".ttf")
                     THEN DictSet(font_paths, n, FontPath(n, ".ttf"))
                     ELSE IF HasFile(fontdir, n, ".otf")
                     THEN DictSet(font_paths, n, FontPath(n, ".otf"))
                     ELSE font_paths
         IN  StoreFontPaths(next, Tail(names), fontdir)

\* ResourceManager._scan_resources
ScanResources(r, d) ==
    LET font_names == ScanDirectory(d.fonts, SeqSet(FontExts))
    IN  [r EXCEPT
            !.background_names = ScanDirectory(d.backgrounds, SeqSet(ImageExts)),
            !.pattern_names = ScanDirectory(d.patterns, SeqSet(ImageExts)),
            !.font_names = font_names,
            !.font_paths = StoreFontPaths(r.font_paths, font_names, d.fonts)]

\* ResourceManager.__init__
NewResourceManager(d) ==
    ScanResources([images |-> <<>>, fonts |-> <<>>, font_paths |-> <<>>,
                   background_names |-> <<>>, pattern_names |-> <<>>,
                   font_names |-> <<>>,
                   image_lru |-> <<>>, font_lru |-> <<>>], d)

-----------------------------------------------------------------------------
(* Images *)

MaxImageSize == 2048
ImageLruSize == 64

\* A decoded RGBA image: where it came from and its size.  NoImage is None.
NoImage == [kind |-> "none", type |-> "", file |-> "", w |-> 0, h |-> 0]
Img(type, file, w, h) ==
    [kind |-> "image", type |-> type, file |-> file, w |-> w, h |-> h]

Abs(n) == IF n < 0 THEN 0 - n ELSE n
Max(a, b) == IF a > b THEN a ELSE b
CeilDiv(a, b) == (a + b - 1) \div b

\* PIL Image.thumbnail((m, m)): no change when the image fits; otherwise the
\* longer side becomes m and the other one is round_aspect of the scaled value:
\* of its floor and its ceiling the one whose aspect ratio is nearer, at least 1.
PilThumbnail(im, m) ==
    IF m >= im.w /\ m >= im.h THEN im
    ELSE IF im.w <= im.h
    THEN LET lo == (m * im.w) \div im.h
             hi == CeilDiv(m * im.w, im.h)
             x  == IF Abs(m * im.w - lo * im.h) <= Abs(m * im.w - hi * im.h)
                   THEN lo ELSE hi
         IN  [im EXCEPT !.w = Max(x, 1), !.h = m]
    ELSE LET lo == (m * im.h) \div im.w
             hi == CeilDiv(m * im.h, im.w)
             y  == IF lo = 0 THEN lo
                   ELSE IF Abs(im.w * lo - m * im.h) * hi
                           <= Abs(im.w * hi - m * im.h) * lo
                   THEN lo ELSE hi
         IN  [im EXCEPT !.w = m, !.h = Max(y, 1)]

\* lines 79-82: only backgrounds are optimised, not patterns
OptimizeBothOversize(image, image_type) ==
    IF image_type = "background" /\ image.w > MaxImageSize /\ image.h > MaxImageSize
    THEN PilThumbnail(image, MaxImageSize)
    ELSE image

Optimize(image, image_type) ==
    IF image_type = "background"
       /\ (image.w > MaxImageSize \/ image.h > MaxImageSize)
    THEN PilThumbnail(image, MaxImageSize)
    ELSE image

ImageDir(d, image_type) ==
    IF image_type = "background" THEN d.backgrounds ELSE d.patterns

\* lines 74-76: the first extension whose file exists, "" when none does
RECURSIVE FirstExisting(_, _, _)
FirstExisting(dir, name, exts) ==
    IF exts = <<>> THEN ""
    ELSE IF HasFile(dir, name, Head(exts)) THEN Head(exts)
    ELSE FirstExisting(dir, name, Tail(exts))

\* the body of ResourceManager.get_image: [rm, ret]
GetImageBody(r, d, name, image_type) ==
    IF name = "" \/ name = "None" THEN [rm |-> r, ret |-> NoImage]
    ELSE LET cache_key == image_type \o "_" \o name
         IN  IF DictHas(r.images, cache_key)
             THEN [rm |-> r, ret |-> DictGet(r.images, cache_key)]
             ELSE LET dir == ImageDir(d, image_type)
                      ext == FirstExisting(dir, name, ImageExts)
                  IN  IF ext = "" THEN [rm |-> r, ret |-> NoImage]
                      ELSE IF ~FileAt(dir, name, ext).ok
                      THEN [rm |-> r, ret |-> NoImage]
                      ELSE LET f == FileAt(dir, name, ext)
                               image == Optimize(
                                   Img(image_type, name \o ext, f.w, f.h),
                                   image_type)
                           IN  [rm |-> [r EXCEPT
                                          !.images = DictSet(@, cache_key, image)],
                                ret |-> image]

\* ResourceManager.get_image under its lru_cache(maxsize=64)
GetImage(r, d, name, image_type) ==
    LET key == <<name, image_type>>
    IN  IF DictHas(r.image_lru, key)
        THEN [rm |-> [r EXCEPT !.image_lru = LruTouch(@, key)],
              ret |-> DictGet(r.image_lru, key)]
        ELSE LET b == GetImageBody(r, d, name, image_type)
             IN  [rm |-> [b.rm EXCEPT
                            !.image_lru = LruPut(@, key, b.ret, ImageLruSize)],
                  ret |-> b.ret]

GetBackgroundImage(r, d, name) == GetImage(r, d, name, "background")
GetPatternImage(r, d, name) == GetImage(r, d, name, "pattern")

-----------------------------------------------------------------------------
(* Fonts *)

FontCacheLimit == 150
FontEvictCount == 50
FontLruSize == 128

\* ResourceManager._get_platform_fallbacks (its lru_cache returns what the
\* body returns: the body reads nothing but its arguments)
PlatformFallbacks(system, font_name) ==
    IF system = "windows"
    THEN (IF LowerName(font_name) = "impact"
          THEN <<"C:/Windows/Fonts/impact.ttf", "impact.ttf">> ELSE <<>>)
         \o <<"arial.ttf", "calibri.ttf", "segoeui.ttf", "tahoma.ttf",
              "C:/Windows/Fonts/arial.ttf", "C:/Windows/Fonts/calibri.ttf">>
    ELSE IF system = "darwin"
    THEN (IF LowerName(font_name) = "impact" THEN <<"Impact.ttf">> ELSE <<>>)
         \o <<"Arial.ttc", "Helvetica.ttc", "Arial.ttf",
              "/System/Library/Fonts/Arial.ttf",
              "/System/Library/Fonts/Helvetica.ttc">>
    ELSE <<"DejaVuSans.ttf", "liberation-sans.ttf", "Ubuntu-R.ttf",
           "/usr/share/fonts/truetype/dejavu/DejaVuSans.ttf",
           "/usr/share/fonts/truetype/liberation/LiberationSans-Regular.ttf">>

\* lines 142-148: the first fallback truetype can open, else load_default()
RECURSIVE FirstFallback(_, _, _)
FirstFallback(d, fallbacks, size) ==
    IF fallbacks = <<>> THEN DefaultFont
    ELSE IF Head(fallbacks) \in d.system THEN TrueType(Head(fallbacks), size)
    ELSE FirstFallback(d, Tail(fallbacks), size)

\* ResourceManager._get_system_font: d.system is what ImageFont.truetype can
\* open by name or path outside static/fonts
GetSystemFont(d, font_name, size) ==
    IF font_name \in d.system THEN TrueType(font_name, size)
    ELSE FirstFallback(d, PlatformFallbacks(d.platform, font_name), size)

\* whether ImageFont.truetype(path) of an indexed custom font succeeds
CustomLoads(d, path) ==
    \E f \in d.fonts : FontPath(f.stem, f.ext) = path /\ f.ok

\* lines 107-119, with a failed custom font continuing down the chain
LoadFontChain(r, d, font_name, size) ==
    IF DictHas(r.font_paths, font_name)
       /\ CustomLoads(d, DictGet(r.font_paths, font_name))
    THEN TrueType(DictGet(r.font_paths, font_name), size)
    ELSE GetSystemFont(d, font_name, size)

\* lines 107-119: a custom font that fails to load raises inside the try, and
\* the handler answers with load_default()
LoadFont(r, d, font_name, size) ==
    IF DictHas(r.font_paths, font_name)
    THEN (IF CustomLoads(d, DictGet(r.font_paths, font_name))
          THEN TrueType(DictGet(r.font_paths, font_name), size)
          ELSE DefaultFont)
    ELSE GetSystemFont(d, font_name, size)

FontKey(font_name, size) == font_name \o "_" \o ToString(size)

\* an eviction that deletes the last FontEvictCount keys instead
EvictNewest(fonts) ==
    IF Len(fonts) > FontCacheLimit
    THEN SubSeq(fonts, 1, Len(fonts) - FontEvictCount)
    ELSE fonts

\* lines 124-127: past the limit, the first FontEvictCount keys are deleted
EvictOldest(fonts) ==
    IF Len(fonts) > FontCacheLimit
    THEN SubSeq(fonts, FontEvictCount + 1, Len(fonts))
    ELSE fonts

\* the body of ResourceManager.get_pil_font: [rm, ret, loaded]
GetPilFontBody(r, d, font_name, size) ==
    LET cache_key == FontKey(font_name, size)
    IN  IF DictHas(r.fonts, cache_key)
        THEN [rm |-> r, ret |-> DictGet(r.fonts, cache_key), loaded |-> FALSE]
        ELSE LET font == LoadFont(r, d, font_name, size)
             IN  [rm |-> [r EXCEPT
                            !.fonts = EvictOldest(DictSet(@, cache_key, font))],
                  ret |-> font, loaded |-> TRUE]

\* ResourceManager.get_pil_font under its lru_cache(maxsize=128)
GetPilFont(r, d, font_name, size) ==
    LET key == <<font_name, size>>
    IN  IF DictHas(r.font_lru, key)
        THEN [rm |-> [r EXCEPT !.font_lru = LruTouch(@, key)],
              ret |-> DictGet(r.font_lru, key), loaded |-> FALSE]
        ELSE LET b == GetPilFontBody(r, d, font_name, size)
             IN  [rm |-> [b.rm EXCEPT
                            !.font_lru = LruPut(@, key, b.ret, FontLruSize)],
                  ret |-> b.ret, loaded |-> b.loaded]

Rescan(r, d) == ScanResources(r, d)

\* ResourceManager.refresh_resources
RefreshResources(r, d) ==
    [Rescan([r EXCEPT !.images = <<>>, !.fonts = <<>>], d)
        EXCEPT !.image_lru = <<>>, !.font_lru = <<>>]

-----------------------------------------------------------------------------
(* ThumbnailGenerator._wrap_text under its lru_cache *)

WrapLruSize == 128

\* [lru, rm, ret]: a hit returns the cached lines; a miss resolves the font
\* (line 53) and wraps with it
WrapTextCached(lru, r, d, text, font_name, font_size, max_width) ==
    LET key == <<text, font_name, font_size, max_width>>
    IN  IF DictHas(lru, key)
        THEN [lru |-> LruTouch(lru, key), rm |-> r, ret |-> DictGet(lru, key)]
        ELSE LET f == GetPilFont(r, d, font_name, font_size)
                 lines == WrapLines(f.ret, text, max_width)
             IN  [lru |-> LruPut(lru, key, lines, WrapLruSize),
                  rm |-> f.rm, ret |-> lines]

-----------------------------------------------------------------------------
(* The generator: its fields, apply_settings, and the layers of a render *)

\* A form field that was not sent: request.form has no such key.
NoField == <<"">>
Unset == "<unset>"

\* form_data.get(field, default), for a field of text and for a field that
\* names something (a font, an image, an alignment)
FormGet(form, field, default) ==
    IF form[field] = NoField THEN default ELSE form[field]
FormGetName(form, field, default) ==
    IF form[field] = Unset THEN default ELSE form[field]

IsDigit(c) == \E d \in 0..9 : Digit(d) = c
DigitVal(c) == CHOOSE d \in 0..9 : Digit(d) = c

RECURSIVE StripLeft(_)
StripLeft(s) ==
    IF s # <<>> /\ IsSpace(Head(s)) THEN StripLeft(Tail(s)) ELSE s

RECURSIVE StripRight(_)
StripRight(s) ==
    IF s # <<>> /\ IsSpace(s[Len(s)])
    THEN StripRight(SubSeq(s, 1, Len(s) - 1)) ELSE s

RECURSIVE NatOf(_)
NatOf(s) ==
    IF s = <<>> THEN 0
    ELSE (10 * NatOf(SubSeq(s, 1, Len(s) - 1))) + DigitVal(s[Len(s)])

\* int(value) of a str: surrounding whitespace, an optional sign, decimal
\* digits.  [ok, v]; ok is FALSE where Python raises ValueError.
PyInt(value) ==
    LET t == StripRight(StripLeft(value))
        signed == t # <<>> /\ Head(t) \in {"-", "+"}
        digits == IF signed THEN Tail(t) ELSE t
        ok == digits # <<>> /\ \A i \in DOMAIN digits : IsDigit(digits[i])
    IN  IF ~ok THEN [ok |-> FALSE, v |-> 0]
        ELSE [ok |-> TRUE,
              v |-> IF signed /\ Head(t) = "-" THEN 0 - NatOf(digits)
                    ELSE NatOf(digits)]

\* parse_settings.safe_int: None (TypeError) and ValueError give the default
SafeInt(value, default) ==
    IF value = NoField THEN default
    ELSE IF PyInt(value).ok THEN PyInt(value).v ELSE default

HexChars ==
    <<"0", "1", "2", "3", "4", "5", "6", "7", "8", "9",
      "a", "b", "c", "d", "e", "f">>
UpperHexChars == <<"A", "B", "C", "D", "E", "F">>

IsHex(c) ==
    \/ \E i \in DOMAIN HexChars : HexChars[i] = c
    \/ \E i \in DOMAIN UpperHexChars : UpperHexChars[i] = c

HexVal(c) ==
    IF \E i \in DOMAIN HexChars : HexChars[i] = c
    THEN (CHOOSE i \in DOMAIN HexChars : HexChars[i] = c) - 1
    ELSE (CHOOSE i \in DOMAIN UpperHexChars : UpperHexChars[i] = c) + 9

RECURSIVE HexNat(_)
HexNat(s) ==
    IF s = <<>> THEN 0
    ELSE (16 * HexNat(SubSeq(s, 1, Len(s) - 1))) + HexVal(s[Len(s)])

\* int(s, 16) for a slice of hex digits: [ok, v]
PyHexInt(s) ==
    IF s # <<>> /\ \A i \in DOMAIN s : IsHex(s[i])
    THEN [ok |-> TRUE, v |-> HexNat(s)] ELSE [ok |-> FALSE, v |-> 0]

\* s[from:to] of Python, 0-based and clipped to the string
Slice(s, from, to) ==
    SubSeq(s, from + 1, IF to < Len(s) THEN to ELSE Len(s))

On == <<"o", "n">>
White == <<255, 255, 255, 255>>

\* parse_settings.hex_to_rgba
HexToRgba(hex_color) ==
    IF hex_color = <<>> \/ Head(hex_color) # "#" THEN White
    ELSE LET h == Tail(hex_color)
             r == PyHexInt(Slice(h, 0, 2))
             g == PyHexInt(Slice(h, 2, 4))
             b == PyHexInt(Slice(h, 4, 6))
         IN  IF r.ok /\ g.ok /\ b.ok THEN <<r.v, g.v, b.v, 255>> ELSE White

\* parse_settings, the fields the model follows
ParseSettings(form) ==
    [text |-> FormGet(form, "text",
                      <<"W", "e", "e", "k", " ", "^", " ",
                        "O", "v", "e", "r", "v", "i", "e", "w">>),
     filename_base |-> FormGet(form, "filename_base",
                               <<"o", "u", "t", "p", "u", "t">>),
     text_color |-> HexToRgba(FormGet(form, "text_color",
                                      <<"#", "f", "f", "f", "f", "f", "f">>)),
     text_alignment |-> FormGetName(form, "text_alignment", "center"),
     font_name |-> FormGetName(form, "font_name", "Arial"),
     font_size |-> SafeInt(form.font_size, 100),
     text_margins |-> SafeInt(form.text_margins, 100),
     text_x_offset |-> SafeInt(form.text_x_offset, 0),
     text_box_enabled |-> form.text_box_enabled = On,
     text_box_color |-> HexToRgba(FormGet(form, "text_box_color",
                                          <<"#", "0", "0", "0", "0", "0", "0">>)),
     text_box_padding |-> SafeInt(form.text_box_padding, 20),
     text_box_opacity |-> SafeInt(form.text_box_opacity, 100),
     background_color |-> HexToRgba(FormGet(form, "background_color",
                                            <<"#", "d", "7", "3", "f", "0", "9">>)),
     background_opacity |-> SafeInt(form.background_opacity, 100),
     background_image_enabled |-> form.background_image_enabled = On,
     background_image |-> FormGetName(form, "background_image", "None"),
     pattern_enabled |-> form.pattern_enabled = On,
     pattern_overlay |-> FormGetName(form, "pattern_overlay", "None"),
     start_number |-> SafeInt(form.start_number, 1),
     batch_count |-> SafeInt(form.batch_count, 1)]

\* generate_batch, lines 282-283: int(form_data.get(field, 1)), [ok, v]
BatchInt(form, field) ==
    IF form[field] = NoField THEN [ok |-> TRUE, v |-> 1] ELSE PyInt(form[field])

CanvasWidth == 1280
CanvasHeight == 720

\* ThumbnailGenerator._initialize_defaults, the fields the model follows
NewGenerator ==
    [background_image |-> NoImage, background_color |-> <<215, 63, 9, 255>>,
     background_opacity |-> 100, current_pattern |-> NoImage,
     text_alignment |-> "center", text_margins |-> 100,
     text_box_enabled |-> FALSE, font_name |-> "Arial", font_size |-> 100,
     text_x_offset |-> 0, text_box_padding |-> 20,
     text_box_color |-> <<0, 0, 0, 255>>,
     filename_base |-> <<"o", "u", "t", "p", "u", "t">>]

\* apply_settings, lines 141-158
ApplyText(g, settings) ==
    [g EXCEPT !.text_alignment = settings.text_alignment,
              !.font_name = settings.font_name,
              !.font_size = settings.font_size,
              !.text_margins = settings.text_margins,
              !.text_x_offset = settings.text_x_offset,
              !.text_box_enabled = settings.text_box_enabled,
              !.text_box_color =
                  SubSeq(settings.text_box_color, 1, 3)
                      \o <<(255 * settings.text_box_opacity) \div 100>>,
              !.text_box_padding = settings.text_box_padding]

\* an apply_settings that assigns background_image only when the settings
\* enable a background image
ApplyBackgroundKeeping(g, r, d, settings) ==
    LET g1 == [g EXCEPT !.background_color = settings.background_color,
                        !.background_opacity = settings.background_opacity]
        bg_img == settings.background_image
    IN  IF settings.background_image_enabled
        THEN IF bg_img # "" /\ bg_img \notin {"None", "Custom", ""}
             THEN LET c == GetBackgroundImage(r, d, bg_img)
                  IN  [gen |-> [g1 EXCEPT !.background_image = c.ret], rm |-> c.rm]
             ELSE IF r.background_names # <<>>
             THEN LET c == GetBackgroundImage(r, d, r.background_names[1])
                  IN  [gen |-> [g1 EXCEPT !.background_image = c.ret], rm |-> c.rm]
             ELSE [gen |-> g1, rm |-> r]
        ELSE [gen |-> g1, rm |-> r]

\* apply_settings, lines 161-179: [gen, rm]
ApplyBackground(g, r, d, settings) ==
    LET g1 == [g EXCEPT !.background_color = settings.background_color,
                        !.background_opacity = settings.background_opacity]
        bg_img == settings.background_image
    IN  IF settings.background_image_enabled
        THEN IF bg_img # "" /\ bg_img \notin {"None", "Custom", ""}
             THEN LET c == GetBackgroundImage(r, d, bg_img)
                  IN  [gen |-> [g1 EXCEPT !.background_image = c.ret], rm |-> c.rm]
             ELSE IF r.background_names # <<>>
             THEN LET c == GetBackgroundImage(r, d, r.background_names[1])
                  IN  [gen |-> [g1 EXCEPT !.background_image = c.ret], rm |-> c.rm]
             ELSE [gen |-> [g1 EXCEPT !.background_image = NoImage], rm |-> r]
        ELSE [gen |-> [g1 EXCEPT !.background_image = NoImage], rm |-> r]

\* apply_settings, lines 182-198: [gen, rm]
ApplyPattern(g, r, d, settings) ==
    LET g1 == [g EXCEPT !.filename_base = settings.filename_base]
    IN  IF settings.pattern_enabled /\ settings.pattern_overlay # ""
        THEN LET c == GetPatternImage(r, d, settings.pattern_overlay)
             IN  [gen |-> [g1 EXCEPT !.current_pattern = c.ret], rm |-> c.rm]
        ELSE [gen |-> [g1 EXCEPT !.current_pattern = NoImage], rm |-> r]

\* One composited layer: which stage drew it and with what.
BlankLayer ==
    [layer |-> "", color |-> <<>>, image |-> NoImage, opacity |-> 100,
     text |-> <<>>, font |-> DefaultFont, lines |-> <<>>, align |-> "",
     max_line_width |-> 0]

\* _add_background_color with the fill's alpha scaled by background_opacity
FillLayersWithOpacity(g) ==
    <<[BlankLayer EXCEPT !.layer = "fill",
                         !.color = SubSeq(g.background_color, 1, 3)
                                     \o <<(255 * g.background_opacity) \div 100>>]>>

\* _add_background_color: the colour's RGB at alpha 255
FillLayers(g) ==
    <<[BlankLayer EXCEPT !.layer = "fill",
                         !.color = SubSeq(g.background_color, 1, 3) \o <<255>>]>>

\* _add_background_image: nothing without an image
BackgroundLayers(g) ==
    IF g.background_image.kind = "none" THEN <<>>
    ELSE <<[BlankLayer EXCEPT !.layer = "background_image",
                              !.image = g.background_image,
                              !.opacity = g.background_opacity]>>

\* _add_pattern: nothing without a pattern
PatternLayers(g) ==
    IF g.current_pattern.kind = "none" THEN <<>>
    ELSE <<[BlankLayer EXCEPT !.layer = "pattern", !.image = g.current_pattern]>>

RECURSIVE MaxLineWidth(_, _)
MaxLineWidth(font, lines) ==
    IF lines = <<>> THEN 0
    ELSE Max(TextWidth(font, Head(lines)), MaxLineWidth(font, Tail(lines)))

\* _add_text: [layers, lru, rm]; the box, when enabled, goes under the text
TextLayers(g, lru, r, d, display_text, width) ==
    LET f == GetPilFont(r, d, g.font_name, g.font_size)
        max_text_width == width - (g.text_margins * 2)
        w == WrapTextCached(lru, f.rm, d, display_text, g.font_name, g.font_size,
                            max_text_width)
        box == [BlankLayer EXCEPT !.layer = "text_box", !.align = g.text_alignment,
                                  !.max_line_width = MaxLineWidth(f.ret, w.ret)]
        txt == [BlankLayer EXCEPT !.layer = "text", !.text = display_text,
                                  !.font = f.ret, !.lines = w.ret,
                                  !.align = g.text_alignment]
    IN  [layers |-> (IF g.text_box_enabled THEN <<box>> ELSE <<>>) \o <<txt>>,
         lru |-> w.lru, rm |-> w.rm]

\* _calculate_text_x_position: the x at which a line of line_width is drawn
CalculateTextXPosition(g, line_width, width, align) ==
    IF align \in {"top_left", "left", "bottom_left"}
    THEN g.text_margins + g.text_x_offset
    ELSE IF align \in {"top_center", "center", "bottom_center"}
    THEN ((width - line_width) \div 2) + g.text_x_offset
    ELSE IF align \in {"top_right", "right", "bottom_right"}
    THEN width - g.text_margins - line_width + g.text_x_offset
    ELSE ((width - line_width) \div 2) + g.text_x_offset

\* _draw_text_box, lines 254-259: box_x
BoxX(g, max_line_width, width) ==
    IF g.text_alignment = "center"
    THEN ((width - max_line_width) \div 2) - g.text_box_padding + g.text_x_offset
    ELSE IF g.text_alignment = "left"
    THEN g.text_margins - g.text_box_padding + g.text_x_offset
    ELSE width - g.text_margins - max_line_width - g.text_box_padding
            + g.text_x_offset

\* _draw_text_box, line 262
BoxWidth(g, max_line_width) == max_line_width + (2 * g.text_box_padding)

\* int(self.font_size * self.line_spacing_factor), the factor being the 0.3
\* of _initialize_defaults, which the forms of this model leave alone
LineSpacing(g) == (g.font_size * 3) \div 10

\* _draw_text_box, lines 263-264
BoxHeight(g, n_lines) ==
    (n_lines * (g.font_size + LineSpacing(g))) - LineSpacing(g)
        + (2 * g.text_box_padding)

\* _draw_text_box, lines 267-275: whether drawing the box raises.  A box
\* colour with alpha below 255 goes through Image.new, which raises
\* ValueError for a negative size; an opaque one goes through
\* draw.rectangle, which raises for x1 < x0 or y1 < y0 in some Pillow
\* releases and draws nothing in others.
BoxRaises(g, n_lines, max_line_width) ==
    LET negative == BoxWidth(g, max_line_width) < 0 \/ BoxHeight(g, n_lines) < 0
    IN  IF Len(g.text_box_color) > 3 /\ g.text_box_color[4] < 255
        THEN {negative}
        ELSE IF negative THEN {TRUE, FALSE} ELSE {FALSE}

\* Image.new("RGBA", (width, height)), line 87
NewCanvas(width, height) == [size |-> <<width, height>>, layers |-> <<>>]

\* Image.alpha_composite(img, layer): an image of img's size, the layers of
\* a stage on top of what was there
AlphaComposite(canvas, layers) ==
    [size |-> canvas.size, layers |-> canvas.layers \o layers]

\* _add_background_image resizing the generator's background_image in place
BackgroundSourceResized(g, width, height) ==
    IF g.background_image.kind = "none" THEN g.background_image
    ELSE [g.background_image EXCEPT !.w = width, !.h = height]

\* _add_background_image, line 115: resize returns a new image, the
\* generator's background_image is what it was
BackgroundSource(g, width, height) == g.background_image

\* _add_pattern, lines 144-150: resize and copy return a new image
PatternSource(g) == g.current_pattern

\* generate_thumbnail, line 84
DisplayText(text, number) == Replace(text, Str(number))

\* generate_thumbnail, line 95
ReturnedFilename(g, number) == g.filename_base \o Str(number)

\* generate_thumbnail with _add_pattern ahead of _add_background_image
GenerateThumbnailPatternFirst(g, lru, r, d, text, number, width, height) ==
    LET c0 == NewCanvas(width, height)
        c1 == AlphaComposite(c0, FillLayers(g))
        c2 == AlphaComposite(c1, PatternLayers(g))
        c3 == AlphaComposite(c2, BackgroundLayers(g))
        x == TextLayers(g, lru, r, d, DisplayText(text, number), width)
        c4 == [c3 EXCEPT !.layers = @ \o x.layers]
    IN  [canvas |-> c4, sizes |-> <<c0.size, c1.size, c2.size, c3.size, c4.size>>,
         filename |-> ReturnedFilename(g, number), gen |-> g,
         lru |-> x.lru, rm |-> x.rm]

\* ThumbnailGenerator.generate_thumbnail: the canvas, the size it had after
\* each stage, the filename, and the generator, wrap cache and resource
\* manager it leaves
GenerateThumbnail(g, lru, r, d, text, number, width, height) ==
    LET c0 == NewCanvas(width, height)
        c1 == AlphaComposite(c0, FillLayers(g))
        c2 == AlphaComposite(c1, BackgroundLayers(g))
        c3 == AlphaComposite(c2, PatternLayers(g))
        x == TextLayers(g, lru, r, d, DisplayText(text, number), width)
        c4 == [c3 EXCEPT !.layers = @ \o x.layers]
    IN  [canvas |-> c4, sizes |-> <<c0.size, c1.size, c2.size, c3.size, c4.size>>,
         filename |-> ReturnedFilename(g, number),
         gen |-> [g EXCEPT !.background_image = BackgroundSource(g, width, height),
                           !.current_pattern = PatternSource(g)],
         lru |-> x.lru, rm |-> x.rm]

\* generate_batch, line 295, for the template with the start number alone
BatchTextOfStart(text_template, start_number, i) ==
    Replace(text_template, Str(start_number))

\* generate_batch, line 295
BatchText(text_template, start_number, i) ==
    Replace(text_template, Str(start_number + i))

\* generate_batch, lines 301-302
BatchFilename(filename_base, start_number, i) ==
    Replace(filename_base, Str(start_number + i)) \o <<"_">>
        \o Str(start_number + i) \o <<".", "p", "n", "g">>

\* upload_background, lines 341-344, with both sides required oversize
UploadOptimizeBothOversize(img) ==
    IF img.w > MaxImageSize /\ img.h > MaxImageSize
    THEN PilThumbnail(img, MaxImageSize) ELSE img

\* upload_background, lines 341-344
UploadOptimize(img) ==
    IF img.w > MaxImageSize \/ img.h > MaxImageSize
    THEN PilThumbnail(img, MaxImageSize) ELSE img

-----------------------------------------------------------------------------
(* SpecWrap: _wrap_text as a function of (text, font, max_width) *)

WrapChars == {"a", "W", " ", "\n"}

RECURSIVE TextsUpTo(_)
TextsUpTo(n) ==
    IF n = 0 THEN {<<>>}
    ELSE LET shorter == TextsUpTo(n - 1)
         IN  shorter \cup {Append(t, c) : t \in shorter, c \in WrapChars}

WrapFonts == {DefaultFont, TrueType("Arial", 2)}

NoCall ==
    [op |-> "none", name |-> "", size |-> 0, text |-> <<>>, width |-> 0,
     font |-> DefaultFont, image |-> NoImage, lines |-> <<>>, loaded |-> FALSE]

EmptyDisk ==
    [backgrounds |-> {}, patterns |-> {}, fonts |-> {}, system |-> {},
     platform |-> "linux"]

NoClient == [fonts |-> 0, images |-> 0, fresh |-> 0, repeats |-> 0, requests |-> 0]

Threads == {1, 2}

IdleThread ==
    [pc |-> "idle", name |-> "", size |-> 0, font |-> DefaultFont, old_keys |-> <<>>]

NoThreads == [t \in Threads |-> IdleThread]

NoSettings ==
    [text |-> <<>>, filename_base |-> <<>>, text_alignment |-> "",
     font_name |-> "", font_size |-> 0, text_margins |-> 0,
     text_x_offset |-> 0, text_box_padding |-> 0,
     text_box_color |-> <<0, 0, 0, 255>>, text_box_opacity |-> 0,
     text_box_enabled |-> FALSE, background_color |-> <<>>,
     background_opacity |-> 0, background_image_enabled |-> FALSE,
     background_image |-> "", pattern_enabled |-> FALSE, pattern_overlay |-> ""]

IdleRequest ==
    [pc |-> "idle", kind |-> "", settings |-> NoSettings, start_number |-> 0,
     batch_count |-> 0, i |-> 0, canvas |-> <<>>, out |-> <<>>]

NoRequests == [t \in Threads |-> IdleRequest]

NoWrapCall ==
    [text |-> <<>>, font |-> DefaultFont, max_width |-> 0, lines |-> <<>>,
     done |-> TRUE]

NoLayout ==
    [g |-> NewGenerator, width |-> 0, max_line_width |-> 0, text_x |-> 0,
     box_x |-> 0, done |-> FALSE]

NoResponse == [kind |-> "none", image |-> <<>>, archive |-> <<>>]

NoHandler ==
    [pc |-> "none", kind |-> "", form |-> <<>>, settings |-> NoSettings,
     start_number |-> 0, batch_count |-> 0, i |-> 0, zip |-> <<>>,
     image |-> <<>>, raised |-> FALSE, resp |-> NoResponse]

\* SimpleCache.__init__ with its defaults; lock is 0 when free, else the
\* thread holding it
NewSimpleCache ==
    [cache |-> <<>>, access_times |-> <<>>, max_size |-> 100, ttl |-> 300,
     lock |-> 0]

\* what get returns: None, or the value found
NoneValue == [hit |-> FALSE, v |-> 0]

IdleCaller ==
    [pc |-> "idle", op |-> "", key |-> "", value |-> 0, oldest |-> "",
     tested_at |-> 0, accessed |-> 0, returned_at |-> 0, ret |-> NoneValue]

NoCallers == [t \in Threads |-> IdleCaller]

AppIdle ==
    /\ layout = NoLayout
    /\ handler = NoHandler
    /\ preview_cache = NewSimpleCache
    /\ now = 0
    /\ caller = NoCallers

BaseIdle ==
    /\ disk = EmptyDisk
    /\ rm = NewResourceManager(EmptyDisk)
    /\ wrapLru = <<>>
    /\ lastCall = NoCall
    /\ client = NoClient
    /\ th = NoThreads
    /\ gen = NewGenerator
    /\ req = NoRequests

ResIdle == AppIdle /\ BaseIdle

resVars == <<disk, rm, wrapLru, lastCall, client, th, gen, req, appVars>>

WrapInit ==
    /\ ResIdle
    /\ \E t \in TextsUpTo(MaxTextLen), f \in WrapFonts, w \in (0 - 1)..MaxWidth :
          wrapCall = [text |-> t, font |-> f, max_width |-> w,
                      lines |-> <<>>, done |-> FALSE]

WrapText ==
    /\ ~wrapCall.done
    /\ wrapCall' = [wrapCall EXCEPT
            !.lines = WrapLines(wrapCall.font, wrapCall.text, wrapCall.max_width),
            !.done = TRUE]
    /\ UNCHANGED resVars

WrapNext == WrapText

SpecWrap == WrapInit /\ [][WrapNext]_vars

-----------------------------------------------------------------------------
(* C3: every line _wrap_text returns is at most max_width wide or is a     *)
(* single word, and a word wider than max_width is alone on its line.      *)

LineWithinOrSingle(font, line, max_width) ==
    LET words == SplitWS(line)
    IN  \/ Len(words) = 1
        \/ /\ TextWidth(font, line) <= max_width
           /\ \A k \in 1..Len(words) : TextWidth(font, words[k]) <= max_width

C3_WrappedWidth ==
    wrapCall.done =>
        \A i \in 1..Len(wrapCall.lines) :
            LineWithinOrSingle(wrapCall.font, wrapCall.lines[i], wrapCall.max_width)

\* an oversized word between two words that fit: three lines, the middle one
\* wider than max_width
C3_Witness ==
    /\ wrapCall.done
    /\ Len(wrapCall.lines) = 3
    /\ TextWidth(wrapCall.font, wrapCall.lines[2]) > wrapCall.max_width
    /\ TextWidth(wrapCall.font, wrapCall.lines[1]) <= wrapCall.max_width

-----------------------------------------------------------------------------
(* SpecRes: calls on one ResourceManager while the asset directories change *)

ResText == <<"a", " ", "W">>
ResWidth == 3
ResSize == 2
ResFontNames == {"MyFont", "Impact"}

\* the platforms, each with the fonts truetype can open there
ResEnvs ==
    { [platform |-> "linux", system |-> {"MyFont", "DejaVuSans.ttf"}],
      [platform |-> "windows", system |-> {"impact.ttf", "arial.ttf"}],
      [platform |-> "darwin", system |-> {"Impact.ttf", "Helvetica.ttc"}] }

MyFontFiles == {File("MyFont", ".ttf", TRUE, 0, 0), File("MyFont", ".ttf", FALSE, 0, 0)}
BeachFile == File("beach", ".png", TRUE, 800, 600)

ResInit ==
    /\ AppIdle
    /\ wrapCall = NoWrapCall
    /\ gen = NewGenerator
    /\ req = NoRequests
    /\ \E e \in ResEnvs, fs \in {{}} \cup {{f} : f \in MyFontFiles},
          bs \in {{}, {BeachFile}} :
          /\ disk = [backgrounds |-> bs, patterns |-> {}, fonts |-> fs,
                     system |-> e.system, platform |-> e.platform]
          /\ rm = NewResourceManager(disk)
    /\ wrapLru = <<>>
    /\ lastCall = NoCall
    /\ client = NoClient
    /\ th = NoThreads

\* a font file is written to, or replaced in, static/fonts
PutFontFile ==
    /\ \E f \in MyFontFiles :
          disk' = [disk EXCEPT !.fonts = {g \in @ : g.stem # f.stem \/ g.ext # f.ext}
                                           \cup {f}]
    /\ disk' # disk
    /\ lastCall' = NoCall
    /\ UNCHANGED <<wrapCall, rm, wrapLru, client, th, gen, req, appVars>>

RemoveFontFile ==
    /\ \E f \in disk.fonts : disk' = [disk EXCEPT !.fonts = @ \ {f}]
    /\ lastCall' = NoCall
    /\ UNCHANGED <<wrapCall, rm, wrapLru, client, th, gen, req, appVars>>

PutBackgroundFile ==
    /\ BeachFile \notin disk.backgrounds
    /\ disk' = [disk EXCEPT !.backgrounds = @ \cup {BeachFile}]
    /\ lastCall' = NoCall
    /\ UNCHANGED <<wrapCall, rm, wrapLru, client, th, gen, req, appVars>>

RemoveBackgroundFile ==
    /\ \E f \in disk.backgrounds : disk' = [disk EXCEPT !.backgrounds = @ \ {f}]
    /\ lastCall' = NoCall
    /\ UNCHANGED <<wrapCall, rm, wrapLru, client, th, gen, req, appVars>>

CallGetPilFont ==
    \E n \in ResFontNames :
        LET c == GetPilFont(rm, disk, n, ResSize)
        IN  /\ rm' = c.rm
            /\ lastCall' = [NoCall EXCEPT !.op = "get_pil_font", !.name = n,
                               !.size = ResSize, !.font = c.ret, !.loaded = c.loaded]
            /\ UNCHANGED <<wrapCall, disk, wrapLru, client, th, gen, req, appVars>>

CallGetImage ==
    \E n \in {"beach"} :
        LET c == GetBackgroundImage(rm, disk, n)
        IN  /\ rm' = c.rm
            /\ lastCall' = [NoCall EXCEPT !.op = "get_image", !.name = n,
                               !.image = c.ret]
            /\ UNCHANGED <<wrapCall, disk, wrapLru, client, th, gen, req, appVars>>

\* lines 184-188 of _add_text: the font it will draw with, then the lines
CallWrapText ==
    \E n \in ResFontNames :
        LET f == GetPilFont(rm, disk, n, ResSize)
            c == WrapTextCached(wrapLru, f.rm, disk, ResText, n, ResSize, ResWidth)
        IN  /\ rm' = c.rm
            /\ wrapLru' = c.lru
            /\ lastCall' = [NoCall EXCEPT !.op = "wrap_text", !.name = n,
                               !.size = ResSize, !.text = ResText, !.width = ResWidth,
                               !.font = f.ret, !.lines = c.ret]
            /\ UNCHANGED <<wrapCall, disk, client, th, gen, req, appVars>>

CallRefresh ==
    /\ rm' = RefreshResources(rm, disk)
    /\ lastCall' = [NoCall EXCEPT !.op = "refresh"]
    /\ UNCHANGED <<wrapCall, disk, wrapLru, client, th, gen, req, appVars>>

ResNext ==
    \/ PutFontFile
    \/ RemoveFontFile
    \/ PutBackgroundFile
    \/ RemoveBackgroundFile
    \/ CallGetPilFont
    \/ CallGetImage
    \/ CallWrapText
    \/ CallRefresh

SpecRes == ResInit /\ [][ResNext]_vars

\* the stems of the font files on disk that _scan_resources can index
IndexableFonts(d) == {f.stem : f \in {g \in d.fonts : g.ext \in SeqSet(FontExts)}}

(* C8: when refresh_resources returns, the font-name list, the custom-font   *)
(* path index and the background and pattern name lists hold exactly the     *)
(* assets on disk, and nothing loaded before the refresh is left in a cache  *)
(* for a later get_pil_font or get_image to return.                          *)
C8_RefreshExact ==
    lastCall.op = "refresh" =>
        /\ rm.font_names = ScanDirectory(disk.fonts, SeqSet(FontExts))
        /\ rm.background_names = ScanDirectory(disk.backgrounds, SeqSet(ImageExts))
        /\ rm.pattern_names = ScanDirectory(disk.patterns, SeqSet(ImageExts))
        /\ KeySet(rm.font_paths) = IndexableFonts(disk)
        /\ rm.fonts = <<>> /\ rm.images = <<>>
        /\ rm.font_lru = <<>> /\ rm.image_lru = <<>>

(* C9: the lines _wrap_text returns to _add_text are the greedy wrap of the  *)
(* text with the font get_pil_font resolves for that name and size at that   *)
(* moment, also after a refresh has changed what the name resolves to.       *)
C9_LinesOfCurrentFont ==
    lastCall.op = "wrap_text" =>
        lastCall.lines = WrapLines(lastCall.font, lastCall.text, lastCall.width)

(* C10: a font that get_pil_font loads is the one the chain custom index,    *)
(* system lookup by name, platform fallbacks, built-in default gives, a      *)
(* custom file that cannot be loaded counting as a missing one.              *)
C10_ResolutionChain ==
    lastCall.op = "get_pil_font" /\ lastCall.loaded =>
        lastCall.font = LoadFontChain(rm, disk, lastCall.name, lastCall.size)

-----------------------------------------------------------------------------
(* SpecCache: one caller after another asks for many distinct fonts and     *)
(* images.  The run starts with the caches as a number of such calls leave  *)
(* them: the model's own get_pil_font and get_image, applied in turn.       *)

BulkDisk ==
    [backgrounds |-> {File(BulkStem(i), ".png", TRUE, 800, 600) : i \in 1..NumBulk},
     patterns |-> {}, fonts |-> {}, system |-> {"Arial"}, platform |-> "linux"]

\* r after get_pil_font("Arial", size) for size = from .. to (the first half
\* of the calls is evaluated before the second half starts from it)
RECURSIVE AfterFonts(_, _, _)
AfterFonts(r, from, to) ==
    IF from > to THEN r
    ELSE IF from = to THEN GetPilFont(r, BulkDisk, "Arial", from).rm
    ELSE LET mid == (from + to) \div 2
             half == AfterFonts(r, from, mid)
         IN  IF Len(half.fonts) >= 0 THEN AfterFonts(half, mid + 1, to) ELSE half

\* r after get_background_image of the bulk backgrounds from .. to
RECURSIVE AfterImages(_, _, _)
AfterImages(r, from, to) ==
    IF from > to THEN r
    ELSE IF from = to THEN GetBackgroundImage(r, BulkDisk, BulkStem(from)).rm
    ELSE LET mid == (from + to) \div 2
             half == AfterImages(r, from, mid)
         IN  IF Len(half.images) >= 0 THEN AfterImages(half, mid + 1, to) ELSE half

CacheInit ==
    /\ AppIdle
    /\ wrapCall = NoWrapCall
    /\ gen = NewGenerator
    /\ req = NoRequests
    /\ wrapLru = <<>>
    /\ lastCall = NoCall
    /\ th = NoThreads
    /\ disk = BulkDisk
    /\ \E kf \in {0, FontCacheLimit - 2}, ki \in {0, FontCacheLimit - 2} :
          /\ client = [fonts |-> kf, images |-> ki, fresh |-> 0, repeats |-> 0, requests |-> 0]
          /\ rm = AfterImages(AfterFonts(NewResourceManager(BulkDisk), 1, kf), 1, ki)

\* a font size not asked for before
FreshFont ==
    /\ client.fresh < MaxFresh
    /\ LET size == client.fonts + 1
           c == GetPilFont(rm, disk, "Arial", size)
       IN  /\ rm' = c.rm
           /\ lastCall' = [NoCall EXCEPT !.op = "get_pil_font", !.name = "Arial",
                              !.size = size, !.font = c.ret, !.loaded = c.loaded]
    /\ client' = [client EXCEPT !.fonts = @ + 1, !.fresh = @ + 1]
    /\ UNCHANGED <<wrapCall, disk, wrapLru, th, gen, req, appVars>>

\* a font size asked for before: the oldest, or one on either side of the
\* FontEvictCount-th
RepeatFont ==
    /\ client.repeats < MaxRepeats
    /\ \E size \in {1, FontEvictCount, FontEvictCount + 1} :
          /\ size <= client.fonts
          /\ LET c == GetPilFont(rm, disk, "Arial", size)
             IN  /\ rm' = c.rm
                 /\ lastCall' = [NoCall EXCEPT !.op = "get_pil_font",
                                    !.name = "Arial", !.size = size,
                                    !.font = c.ret, !.loaded = c.loaded]
    /\ client' = [client EXCEPT !.repeats = @ + 1]
    /\ UNCHANGED <<wrapCall, disk, wrapLru, th, gen, req, appVars>>

\* a background not asked for before
FreshImage ==
    /\ client.fresh < MaxFresh
    /\ client.images < NumBulk
    /\ LET name == BulkStem(client.images + 1)
           c == GetBackgroundImage(rm, disk, name)
       IN  /\ rm' = c.rm
           /\ lastCall' = [NoCall EXCEPT !.op = "get_image", !.name = name,
                              !.image = c.ret]
    /\ client' = [client EXCEPT !.images = @ + 1, !.fresh = @ + 1]
    /\ UNCHANGED <<wrapCall, disk, wrapLru, th, gen, req, appVars>>

\* a background asked for before
RepeatImage ==
    /\ client.repeats < MaxRepeats
    /\ \E i \in {1, client.images} :
          /\ 1 <= i /\ i <= client.images
          /\ LET c == GetBackgroundImage(rm, disk, BulkStem(i))
             IN  /\ rm' = c.rm
                 /\ lastCall' = [NoCall EXCEPT !.op = "get_image",
                                    !.name = BulkStem(i), !.image = c.ret]
    /\ client' = [client EXCEPT !.repeats = @ + 1]
    /\ UNCHANGED <<wrapCall, disk, wrapLru, th, gen, req, appVars>>

CacheNext == FreshFont \/ RepeatFont \/ FreshImage \/ RepeatImage

SpecCache == CacheInit /\ [][CacheNext]_vars

(* C7: the image cache _images and the font cache _fonts each stay at or     *)
(* below a fixed ceiling, however many distinct assets were asked for.  The  *)
(* ceiling is the one the code names, FontCacheLimit.                        *)
C7_CachesBounded ==
    /\ Len(rm.fonts) <= FontCacheLimit
    /\ Len(rm.images) <= FontCacheLimit

-----------------------------------------------------------------------------
(* SpecRace: two request threads inside get_pil_font at once.  The server    *)
(* runs threaded (app.py line 360) and get_pil_font takes no lock, so each   *)
(* statement of lines 102-129 is a step of its own.                          *)

RaceInit ==
    /\ AppIdle
    /\ wrapCall = NoWrapCall
    /\ gen = NewGenerator
    /\ req = NoRequests
    /\ wrapLru = <<>>
    /\ lastCall = NoCall
    /\ th = NoThreads
    /\ disk = BulkDisk
    /\ \E kf \in (FontCacheLimit - 2)..FontCacheLimit :
          /\ client = [fonts |-> kf, images |-> 0, fresh |-> 0, repeats |-> 0, requests |-> 0]
          /\ rm = AfterFonts(NewResourceManager(BulkDisk), 1, kf)

ThreadKey(t) == FontKey(th[t].name, th[t].size)

\* the lru_cache wrapper is entered: a hit returns at once
Enter(t) ==
    /\ th[t].pc = "idle"
    /\ \E size \in {client.fonts + 1, client.fonts + 2} :
          LET key == <<"Arial", size>>
          IN  IF DictHas(rm.font_lru, key)
              THEN /\ rm' = [rm EXCEPT !.font_lru = LruTouch(@, key)]
                   /\ th' = [th EXCEPT ![t] = [IdleThread EXCEPT
                                !.pc = "done", !.name = "Arial", !.size = size,
                                !.font = DictGet(rm.font_lru, key)]]
              ELSE /\ rm' = rm
                   /\ th' = [th EXCEPT ![t] = [IdleThread EXCEPT
                                !.pc = "check", !.name = "Arial", !.size = size]]
    /\ UNCHANGED <<wrapCall, disk, wrapLru, lastCall, client, gen, req, appVars>>

\* lines 104-105
CheckCached(t) ==
    /\ th[t].pc = "check"
    /\ th' = [th EXCEPT ![t] =
                IF DictHas(rm.fonts, ThreadKey(t))
                THEN [@ EXCEPT !.pc = "store", !.font = DictGet(rm.fonts, ThreadKey(t))]
                ELSE [@ EXCEPT !.pc = "load"]]
    /\ UNCHANGED <<wrapCall, disk, rm, wrapLru, lastCall, client, gen, req, appVars>>

\* lines 107-119
Load(t) ==
    /\ th[t].pc = "load"
    /\ th' = [th EXCEPT ![t] = [@ EXCEPT !.pc = "insert",
                !.font = LoadFont(rm, disk, th[t].name, th[t].size)]]
    /\ UNCHANGED <<wrapCall, disk, rm, wrapLru, lastCall, client, gen, req, appVars>>

\* line 121
Insert(t) ==
    /\ th[t].pc = "insert"
    /\ rm' = [rm EXCEPT !.fonts = DictSet(@, ThreadKey(t), th[t].font)]
    /\ th' = [th EXCEPT ![t] = [@ EXCEPT !.pc = "limit"]]
    /\ UNCHANGED <<wrapCall, disk, wrapLru, lastCall, client, gen, req, appVars>>

\* line 124
CheckLimit(t) ==
    /\ th[t].pc = "limit"
    /\ th' = [th EXCEPT ![t] = [@ EXCEPT !.pc =
                IF Len(rm.fonts) > FontCacheLimit THEN "snapshot" ELSE "store"]]
    /\ UNCHANGED <<wrapCall, disk, rm, wrapLru, lastCall, client, gen, req, appVars>>

FirstKeys(d, n) == SubSeq(DictKeys(d), 1, IF Len(d) < n THEN Len(d) ELSE n)

\* line 125
Snapshot(t) ==
    /\ th[t].pc = "snapshot"
    /\ th' = [th EXCEPT ![t] = [@ EXCEPT !.pc = "evict",
                !.old_keys = FirstKeys(rm.fonts, FontEvictCount)]]
    /\ UNCHANGED <<wrapCall, disk, rm, wrapLru, lastCall, client, gen, req, appVars>>

\* lines 126-127, one key per step: del of a key that is gone raises KeyError,
\* which leaves get_pil_font
EvictOne(t) ==
    /\ th[t].pc = "evict"
    /\ IF th[t].old_keys = <<>>
       THEN /\ th' = [th EXCEPT ![t] = [@ EXCEPT !.pc = "store"]]
            /\ rm' = rm
       ELSE IF DictHas(rm.fonts, Head(th[t].old_keys))
       THEN /\ rm' = [rm EXCEPT !.fonts = DictDel(@, Head(th[t].old_keys))]
            /\ th' = [th EXCEPT ![t] = [@ EXCEPT !.old_keys = Tail(@)]]
       ELSE /\ th' = [th EXCEPT ![t] = [@ EXCEPT !.pc = "raised"]]
            /\ rm' = rm
    /\ UNCHANGED <<wrapCall, disk, wrapLru, lastCall, client, gen, req, appVars>>

\* line 129 and the wrapper's store of the result
Return(t) ==
    /\ th[t].pc = "store"
    /\ rm' = [rm EXCEPT !.font_lru =
                LruPut(@, <<th[t].name, th[t].size>>, th[t].font, FontLruSize)]
    /\ th' = [th EXCEPT ![t] = [@ EXCEPT !.pc = "done"]]
    /\ UNCHANGED <<wrapCall, disk, wrapLru, lastCall, client, gen, req, appVars>>

RaceNext ==
    \E t \in Threads :
        \/ Enter(t)
        \/ CheckCached(t)
        \/ Load(t)
        \/ Insert(t)
        \/ CheckLimit(t)
        \/ Snapshot(t)
        \/ EvictOne(t)
        \/ Return(t)

SpecRace == RaceInit /\ [][RaceNext]_vars

(* C5: the capacity check, eviction and insertion of get_pil_font act as    *)
(* one atomic unit: no call deletes a key that is already deleted (no        *)
(* KeyError leaves the eviction), and the entry a call inserted is in        *)
(* _fonts until the call returns.                                            *)
C5_AtomicEviction ==
    \A t \in Threads :
        /\ th[t].pc # "raised"
        /\ (th[t].pc \in {"limit", "snapshot", "evict"}
               => DictHas(rm.fonts, ThreadKey(t)))

-----------------------------------------------------------------------------
(* Spec: the request handlers of app.py, each on a thread of its own, all on *)
(* the one module-level generator and resource manager.  The form fields    *)
(* arrive well-formed: settings is what parse_settings returns for them.     *)

CatalogDisk ==
    [backgrounds |-> {File("beach", ".png", TRUE, 4000, 1000),
                      File("sky", ".jpg", TRUE, 800, 600)},
     patterns |-> {File("dots", ".png", TRUE, 3000, 3000)},
     fonts |-> {File("MyFont", ".ttf", TRUE, 0, 0)},
     system |-> {"Arial"}, platform |-> "linux"]

PlainStyle ==
    [text |-> <<"a", " ", "^">>, filename_base |-> <<"R", "^">>,
     text_alignment |-> "center", font_name |-> "Arial", font_size |-> 1,
     text_margins |-> 100, text_x_offset |-> 0,
     text_box_padding |-> 20, text_box_color |-> <<0, 0, 0, 255>>,
     text_box_opacity |-> 100, text_box_enabled |-> FALSE,
     background_color |-> <<215, 63, 9, 255>>, background_opacity |-> 100,
     background_image_enabled |-> FALSE, background_image |-> "None",
     pattern_enabled |-> FALSE, pattern_overlay |-> "None"]

RichStyle ==
    [text |-> <<"W", " ", "^">>, filename_base |-> <<"o", "u", "t">>,
     text_alignment |-> "top_left", font_name |-> "MyFont", font_size |-> 2,
     text_margins |-> 638, text_x_offset |-> 0,
     text_box_padding |-> 20, text_box_color |-> <<0, 0, 0, 255>>,
     text_box_opacity |-> 100, text_box_enabled |-> TRUE,
     background_color |-> <<0, 0, 0, 255>>, background_opacity |-> 10,
     background_image_enabled |-> TRUE, background_image |-> "beach",
     pattern_enabled |-> TRUE, pattern_overlay |-> "dots"]

Styles == {PlainStyle, RichStyle}

\* <<start_number, batch_count>> of the batch requests
BatchParams == {<<7, 0>>, <<9, 2>>}

\* the sizes of the files a user uploads
UploadSizes == {<<4000, 3000>>, <<100, 5000>>, <<800, 600>>}

\* how many requests the clients send in all
MaxRequests == 2

Init ==
    /\ AppIdle
    /\ wrapCall = NoWrapCall
    /\ lastCall = NoCall
    /\ client = NoClient
    /\ th = NoThreads
    /\ disk = CatalogDisk
    /\ rm = NewResourceManager(CatalogDisk)
    /\ wrapLru = <<>>
    /\ gen = NewGenerator
    /\ req = NoRequests

idleVars == <<wrapCall, lastCall, client, th, disk, appVars>>

\* preview(), lines 210-213, and download_individual(), lines 239-242: the
\* two handlers take the same steps up to the encoding of the response
ReceiveSingle(t) ==
    /\ req[t].pc = "idle"
    /\ client.requests < MaxRequests
    /\ client' = [client EXCEPT !.requests = @ + 1]
    /\ \E st \in Styles :
          req' = [req EXCEPT ![t] = [IdleRequest EXCEPT
                     !.pc = "apply_text", !.kind = "single", !.settings = st,
                     !.start_number = 1, !.batch_count = 1]]
    /\ UNCHANGED <<wrapCall, lastCall, th, disk, rm, wrapLru, gen, appVars>>

\* generate_batch(), lines 269-285
ReceiveBatch(t) ==
    /\ req[t].pc = "idle"
    /\ client.requests < MaxRequests
    /\ client' = [client EXCEPT !.requests = @ + 1]
    /\ \E st \in Styles, b \in BatchParams :
          req' = [req EXCEPT ![t] = [IdleRequest EXCEPT
                     !.pc = "apply_text", !.kind = "batch", !.settings = st,
                     !.start_number = b[1], !.batch_count = b[2]]]
    /\ UNCHANGED <<wrapCall, lastCall, th, disk, rm, wrapLru, gen, appVars>>

\* apply_settings, its three groups of assignments
StepApplyText(t) ==
    /\ req[t].pc = "apply_text"
    /\ gen' = ApplyText(gen, req[t].settings)
    /\ req' = [req EXCEPT ![t].pc = "apply_background"]
    /\ UNCHANGED <<idleVars, rm, wrapLru>>

StepApplyBackground(t) ==
    /\ req[t].pc = "apply_background"
    /\ LET a == ApplyBackground(gen, rm, disk, req[t].settings)
       IN  gen' = a.gen /\ rm' = a.rm
    /\ req' = [req EXCEPT ![t].pc = "apply_pattern"]
    /\ UNCHANGED <<idleVars, wrapLru>>

\* after apply_settings the first image is started, or, for an empty batch,
\* the loop of line 293 is over at once
StepApplyPattern(t) ==
    /\ req[t].pc = "apply_pattern"
    /\ LET a == ApplyPattern(gen, rm, disk, req[t].settings)
       IN  gen' = a.gen /\ rm' = a.rm
    /\ req' = [req EXCEPT ![t].pc =
                  IF req[t].batch_count > 0 THEN "fill" ELSE "respond"]
    /\ UNCHANGED <<idleVars, wrapLru>>

\* generate_thumbnail, lines 87-90: a fresh canvas and the fill
StepFill(t) ==
    /\ req[t].pc = "fill"
    /\ req' = [req EXCEPT ![t].pc = "background_image",
                          ![t].canvas = FillLayers(gen)]
    /\ UNCHANGED <<idleVars, rm, wrapLru, gen>>

\* line 91
StepBackgroundImage(t) ==
    /\ req[t].pc = "background_image"
    /\ req' = [req EXCEPT ![t].pc = "pattern",
                          ![t].canvas = @ \o BackgroundLayers(gen)]
    /\ UNCHANGED <<idleVars, rm, wrapLru, gen>>

\* line 92
StepPattern(t) ==
    /\ req[t].pc = "pattern"
    /\ req' = [req EXCEPT ![t].pc = "text",
                          ![t].canvas = @ \o PatternLayers(gen)]
    /\ UNCHANGED <<idleVars, rm, wrapLru, gen>>

\* the text the handler passes to generate_thumbnail for image i
TextArgument(r) ==
    IF r.kind = "batch"
    THEN BatchText(r.settings.text, r.start_number, r.i)
    ELSE r.settings.text

\* lines 93-96, and what the handler does with the image: a batch writes it
\* to the archive under the name of lines 301-302 and goes on to the next
StepText(t) ==
    /\ req[t].pc = "text"
    /\ LET r == req[t]
           number == r.start_number + r.i
           x == TextLayers(gen, wrapLru, rm, disk,
                           DisplayText(TextArgument(r), number), CanvasWidth)
           entry == [number |-> number,
                     image |-> r.canvas \o x.layers,
                     returned |-> ReturnedFilename(gen, number),
                     base |-> gen.filename_base,
                     name |-> IF r.kind = "batch"
                              THEN BatchFilename(r.settings.filename_base,
                                                 r.start_number, r.i)
                              ELSE <<>>]
       IN  /\ wrapLru' = x.lru
           /\ rm' = x.rm
           /\ req' = [req EXCEPT ![t].canvas = <<>>,
                                 ![t].out = Append(@, entry),
                                 ![t].i = @ + 1,
                                 ![t].pc = IF r.i + 1 < r.batch_count
                                           THEN "fill" ELSE "respond"]
    /\ UNCHANGED <<idleVars, gen>>

\* the response leaves; the thread takes the next request
Respond(t) ==
    /\ req[t].pc = "respond"
    /\ req' = [req EXCEPT ![t] = IdleRequest]
    /\ UNCHANGED <<idleVars, rm, wrapLru, gen>>

\* upload_background(), lines 341-346
Upload ==
    /\ client.requests < MaxRequests
    /\ client' = [client EXCEPT !.requests = @ + 1]
    /\ \E size \in UploadSizes :
          gen' = [gen EXCEPT !.background_image =
                     UploadOptimize(Img("upload", "uploads", size[1], size[2]))]
    /\ UNCHANGED <<wrapCall, lastCall, th, disk, rm, wrapLru, req, appVars>>

Next ==
    \/ \E t \in Threads :
          \/ ReceiveSingle(t)
          \/ ReceiveBatch(t)
          \/ StepApplyText(t)
          \/ StepApplyBackground(t)
          \/ StepApplyPattern(t)
          \/ StepFill(t)
          \/ StepBackgroundImage(t)
          \/ StepPattern(t)
          \/ StepText(t)
          \/ Respond(t)
    \/ Upload

Spec == Init /\ [][Next]_vars

\* The image a request's own settings determine, the generator and the
\* resource manager being nobody else's: apply_settings, then the stages.
ExpectedImage(settings, text, number) ==
    LET a1 == ApplyText(NewGenerator, settings)
        a2 == ApplyBackground(a1, NewResourceManager(disk), disk, settings)
        a3 == ApplyPattern(a2.gen, a2.rm, disk, settings)
        g == a3.gen
    IN  FillLayers(g) \o BackgroundLayers(g) \o PatternLayers(g)
          \o TextLayers(g, <<>>, a3.rm, disk, DisplayText(text, number),
                        CanvasWidth).layers

\* the text handed to generate_thumbnail for the k-th image of request r
TextOfEntry(r, k) ==
    IF r.kind = "batch" THEN BatchText(r.settings.text, r.start_number, k - 1)
    ELSE r.settings.text

TextLayerOf(image) == image[Len(image)]

HasUploadLayer(image) ==
    \E j \in DOMAIN image : image[j].image.type = "upload"

\* C1: every filename is the template with each '^' replaced by the sequence
\* number and nothing added, both the one generate_thumbnail returns (from
\* the generator's filename_base) and the one generate_batch gives the
\* archive entry (from the request's filename_base).
C1_FilenameSubstituted ==
    \A t \in Threads : \A k \in DOMAIN req[t].out :
        LET e == req[t].out[k]
        IN  /\ e.returned = Replace(e.base, Str(e.number))
            /\ req[t].kind = "batch" =>
                  e.name = Replace(req[t].settings.filename_base, Str(e.number))

\* C2: a batch of count n from start s renders exactly n images, the k-th
\* entry of the archive (k = 1..n) carrying number s+k-1 and the text of the
\* template with every '^' replaced by s+k-1, in that order.
C2_BatchSequence ==
    \A t \in Threads :
        req[t].kind = "batch" =>
            /\ Len(req[t].out) = req[t].i
            /\ req[t].i <= req[t].batch_count
            /\ req[t].pc = "respond" => Len(req[t].out) = req[t].batch_count
            /\ \A k \in DOMAIN req[t].out :
                  LET e == req[t].out[k]
                      n == req[t].start_number + k - 1
                  IN  /\ e.number = n
                      /\ TextLayerOf(e.image).text =
                             Replace(req[t].settings.text, Str(n))

C2_Witness ==
    \E t \in Threads :
        /\ req[t].kind = "batch"
        /\ req[t].pc = "respond"
        /\ Len(req[t].out) = 2
        /\ req[t].out[1].number = 9
        /\ req[t].out[2].number = 10
        /\ TextLayerOf(req[t].out[2].image).text = <<"a", " ", "1", "0">>

\* C4: whatever the interleaving of the requests, the image a request gets
\* is the one its own settings determine (an image drawn over an uploaded
\* background aside, which no settings name).
C4_OwnSettings ==
    \A t \in Threads : \A k \in DOMAIN req[t].out :
        LET e == req[t].out[k]
        IN  ~HasUploadLayer(e.image) =>
                e.image = ExpectedImage(req[t].settings, TextOfEntry(req[t], k),
                                        e.number)

LongSide(image) == Max(image.w, image.h)

LoadedImages == {rm.images[j].v : j \in DOMAIN rm.images}

\* C6, as the code has it: every catalog background get_image has loaded and
\* every background the generator holds, uploaded ones included, has
\* max(width, height) <= 2048; a catalog pattern keeps the size of its file.
C6_BackgroundsBounded ==
    /\ \A im \in LoadedImages :
          /\ im.type = "background" => LongSide(im) <= MaxImageSize
          /\ im.type = "pattern" =>
                \E f \in disk.patterns : im.w = f.w /\ im.h = f.h
    /\ gen.background_image.kind # "none" =>
          LongSide(gen.background_image) <= MaxImageSize

C6_Witness ==
    /\ gen.background_image.type = "upload"
    /\ gen.background_image.w = MaxImageSize
    /\ gen.background_image.h = 1536
    /\ \E im \in LoadedImages :
          im.type = "background" /\ im.w = MaxImageSize /\ im.h = 512
    /\ \E im \in LoadedImages : im.type = "pattern" /\ im.w = 3000

\* C6, as stated: every image loaded, a catalog background, a catalog pattern
\* or an upload, has max(width, height) <= 2048.
C6_AllImagesBounded ==
    /\ \A im \in LoadedImages : LongSide(im) <= MaxImageSize
    /\ gen.background_image.kind # "none" =>
          LongSide(gen.background_image) <= MaxImageSize
    /\ gen.current_pattern.kind # "none" =>
          LongSide(gen.current_pattern) <= MaxImageSize

-----------------------------------------------------------------------------
(* SpecBox: where _add_text puts the widest line and the box under it *)

Alignments ==
    {"top_left", "top_center", "top_right", "left", "center", "right",
     "bottom_left", "bottom_center", "bottom_right"}

BoxMargins == {0, 100}
BoxPaddings == {0, 20}
BoxOffsets == {0 - 5, 0, 5}
BoxLineWidths == {0, 3, 400}

BoxInit ==
    /\ BaseIdle
    /\ wrapCall = NoWrapCall
    /\ handler = NoHandler
    /\ preview_cache = NewSimpleCache
    /\ now = 0
    /\ caller = NoCallers
    /\ \E a \in Alignments, m \in BoxMargins, p \in BoxPaddings,
          o \in BoxOffsets, w \in BoxLineWidths :
          layout = [NoLayout EXCEPT
                      !.g = [NewGenerator EXCEPT
                               !.text_alignment = a, !.text_margins = m,
                               !.text_box_padding = p, !.text_x_offset = o,
                               !.text_box_enabled = TRUE],
                      !.width = CanvasWidth, !.max_line_width = w]

\* _add_text, lines 211-222, for the widest line
PlaceBoxAndText ==
    /\ ~layout.done
    /\ layout' = [layout EXCEPT
          !.box_x = BoxX(layout.g, layout.max_line_width, layout.width),
          !.text_x = CalculateTextXPosition(layout.g, layout.max_line_width,
                                            layout.width, layout.g.text_alignment),
          !.done = TRUE]
    /\ UNCHANGED <<wrapCall, disk, rm, wrapLru, lastCall, client, th, gen, req,
                   handler, preview_cache, now, caller>>

BoxNext == PlaceBoxAndText

SpecBox == BoxInit /\ [][BoxNext]_vars

\* C11: for each of the nine alignments the box's left edge is the x of the
\* widest line under the text's rule, minus the padding.
C11_BoxFollowsText ==
    layout.done => layout.box_x = layout.text_x - layout.g.text_box_padding

-----------------------------------------------------------------------------
(* SpecForm: one request from its raw form to its response, on a generator  *)
(* and a resource manager nobody else is using.                              *)

EmptyForm ==
    [text |-> <<"^">>, filename_base |-> NoField, text_color |-> NoField,
     text_alignment |-> Unset, font_name |-> Unset, font_size |-> NoField,
     text_margins |-> NoField, text_x_offset |-> NoField,
     text_box_enabled |-> NoField, text_box_color |-> NoField,
     text_box_padding |-> NoField, text_box_opacity |-> NoField,
     background_color |-> NoField, background_opacity |-> NoField,
     background_image_enabled |-> NoField, background_image |-> Unset,
     pattern_enabled |-> NoField, pattern_overlay |-> Unset,
     start_number |-> NoField, batch_count |-> NoField]

Forms ==
    {[EmptyForm EXCEPT !.start_number = sn, !.batch_count = bc,
                       !.text_box_padding = pad, !.text_box_enabled = box,
                       !.text_box_opacity = op, !.font_name = fn,
                       !.font_size = fs, !.background_color = col,
                       !.text_alignment = al] :
        sn \in {NoField, <<"-", "1">>, <<"x">>},
        bc \in {NoField, <<"2">>},
        pad \in {NoField, <<"-", "1">>, <<"z">>},
        box \in {NoField, On},
        op \in {NoField, <<"5", "0">>},
        fn \in {Unset, "Nope"},
        fs \in {NoField, <<"4">>},
        col \in {NoField, <<"#", "z", "z", "0", "0", "0", "0">>,
                 <<"#", "0", "0", "0", "0", "f", "f">>},
        al \in {Unset, "middle", "top_left"}}

Kinds == {"preview", "individual", "batch"}

FormInit ==
    /\ wrapCall = NoWrapCall
    /\ lastCall = NoCall
    /\ client = NoClient
    /\ th = NoThreads
    /\ req = NoRequests
    /\ layout = NoLayout
    /\ preview_cache = NewSimpleCache
    /\ now = 0
    /\ caller = NoCallers
    /\ disk = CatalogDisk
    /\ rm = NewResourceManager(CatalogDisk)
    /\ wrapLru = <<>>
    /\ gen = NewGenerator
    /\ \E kind \in Kinds, form \in Forms :
          handler = [NoHandler EXCEPT !.pc = "received", !.kind = kind,
                                      !.form = form]

formIdle == <<wrapCall, lastCall, client, th, req, layout, preview_cache, now,
              caller, disk>>

\* preview 210-213, download_individual 239-242, generate_batch 269-285:
\* parse_settings, and for a batch the two int() of the batch parameters
HandlerParse ==
    /\ handler.pc = "received"
    /\ LET settings == ParseSettings(handler.form)
           start == BatchInt(handler.form, "start_number")
           count == BatchInt(handler.form, "batch_count")
       IN  IF handler.kind = "batch"
           THEN IF start.ok /\ count.ok
                THEN handler' = [handler EXCEPT
                        !.pc = "apply", !.settings = settings,
                        !.start_number = start.v, !.batch_count = count.v]
                ELSE handler' = [handler EXCEPT
                        !.pc = "except", !.settings = settings]
           ELSE handler' = [handler EXCEPT
                   !.pc = "apply", !.settings = settings,
                   !.start_number = 1, !.batch_count = 1]
    /\ UNCHANGED <<formIdle, rm, wrapLru, gen>>

\* apply_settings, as a whole
ApplySettings(g, r, d, settings) ==
    LET a2 == ApplyBackground(ApplyText(g, settings), r, d, settings)
    IN  ApplyPattern(a2.gen, a2.rm, d, settings)

HandlerApply ==
    /\ handler.pc = "apply"
    /\ LET a == ApplySettings(gen, rm, disk, handler.settings)
       IN  gen' = a.gen /\ rm' = a.rm
    /\ handler' = [handler EXCEPT
          !.pc = IF handler.batch_count > 0 THEN "render" ELSE "respond"]
    /\ UNCHANGED <<formIdle, wrapLru>>

\* the text the handler passes to generate_thumbnail for image i
HandlerText(h) ==
    IF h.kind = "batch"
    THEN BatchText(FormGet(h.form, "text",
                           <<"W", "e", "e", "k", " ",
                             "O", "v", "e", "r", "v", "i", "e", "w">>),
                   h.start_number, h.i)
    ELSE h.settings.text

\* generate_thumbnail for image i, and for a batch the writestr of line 308;
\* an exception of the text box ends the try block
HandlerRender ==
    /\ handler.pc = "render"
    /\ LET number == handler.start_number + handler.i
           x == TextLayers(gen, wrapLru, rm, disk,
                           DisplayText(HandlerText(handler), number), CanvasWidth)
           txt == x.layers[Len(x.layers)]
           image == FillLayers(gen) \o BackgroundLayers(gen)
                       \o PatternLayers(gen) \o x.layers
           outcomes == IF gen.text_box_enabled
                       THEN BoxRaises(gen, Len(txt.lines),
                                      x.layers[1].max_line_width)
                       ELSE {FALSE}
           entry == [number |-> number, image |-> image,
                     name |-> BatchFilename(
                                 FormGet(handler.form, "filename_base",
                                         <<"T", "h", "u", "m", "b", "n", "a", "i", "l">>),
                                 handler.start_number, handler.i)]
       IN  /\ wrapLru' = x.lru
           /\ rm' = x.rm
           /\ \E raises \in outcomes :
                 IF raises
                 THEN handler' = [handler EXCEPT !.pc = "except", !.raised = TRUE]
                 ELSE handler' = [handler EXCEPT
                         !.i = @ + 1,
                         !.image = image,
                         !.zip = IF handler.kind = "batch"
                                 THEN Append(@, entry) ELSE @,
                         !.pc = IF handler.i + 1 < handler.batch_count
                                THEN "render" ELSE "respond"]
    /\ UNCHANGED <<formIdle, gen>>

\* jsonify of lines 227-230, send_file of lines 254-259 and 312-317
SuccessResponse(h) ==
    IF h.kind = "batch"
    THEN [kind |-> "archive", image |-> <<>>, archive |-> h.zip]
    ELSE [kind |-> "image", image |-> h.image, archive |-> <<>>]

\* the except branches, lines 232-233, 262-263 and 319-320, keeping the image
\* and the archive written so far
ExceptResponsePartial(h) ==
    [kind |-> "error", image |-> h.image, archive |-> h.zip]

\* the except branches, lines 232-233, 262-263 and 319-320
ExceptResponse(h) ==
    [kind |-> "error", image |-> <<>>, archive |-> <<>>]

HandlerRespond ==
    /\ handler.pc = "respond"
    /\ handler' = [handler EXCEPT !.pc = "done", !.resp = SuccessResponse(handler)]
    /\ UNCHANGED <<formIdle, rm, wrapLru, gen>>

HandlerExcept ==
    /\ handler.pc = "except"
    /\ handler' = [handler EXCEPT !.pc = "done", !.resp = ExceptResponse(handler)]
    /\ UNCHANGED <<formIdle, rm, wrapLru, gen>>

FormNext ==
    \/ HandlerParse
    \/ HandlerApply
    \/ HandlerRender
    \/ HandlerRespond
    \/ HandlerExcept

SpecForm == FormInit /\ [][FormNext]_vars

\* whether hex_to_rgba finds a colour in the text
ColourParses(hex_color) ==
    /\ hex_color # <<>>
    /\ Head(hex_color) = "#"
    /\ PyHexInt(Slice(Tail(hex_color), 0, 2)).ok
    /\ PyHexInt(Slice(Tail(hex_color), 2, 4)).ok
    /\ PyHexInt(Slice(Tail(hex_color), 4, 6)).ok

Unparseable(value) == value # NoField /\ ~PyInt(value).ok

\* C12: a numeric, colour or alignment field that cannot be parsed has its
\* default in the parsed settings, and whatever the form holds the request
\* ends with a rendered result, never with an error response.
C12_DefaultsNoError ==
    handler.pc \notin {"none", "received"} =>
        LET f == handler.form
            st == handler.settings
        IN  /\ Unparseable(f.font_size) => st.font_size = 100
            /\ Unparseable(f.text_box_padding) => st.text_box_padding = 20
            /\ Unparseable(f.text_box_opacity) => st.text_box_opacity = 100
            /\ (f.background_color # NoField /\ ~ColourParses(f.background_color))
                  => st.background_color = <<215, 63, 9, 255>>
            /\ (f.text_alignment # Unset /\ f.text_alignment \notin Alignments)
                  => st.text_alignment = "center"
            /\ handler.pc = "done" => handler.resp.kind # "error"

\* C15: a request in which a stage raised ends with an error response that
\* carries no image and no archive, whatever was rendered before the
\* failure; an archive that is returned holds every image of the batch.
C15_AllOrNothing ==
    handler.pc = "done" =>
        /\ handler.raised => handler.resp.kind = "error"
        /\ handler.resp.kind = "error" =>
              handler.resp.image = <<>> /\ handler.resp.archive = <<>>
        /\ handler.resp.kind = "archive" =>
              /\ ~handler.raised
              /\ Len(handler.resp.archive) = Max(handler.batch_count, 0)
        /\ handler.resp.kind = "image" =>
              ~handler.raised /\ handler.resp.image # <<>>

C15_Witness ==
    /\ handler.pc = "done"
    /\ handler.kind = "batch"
    /\ handler.raised
    /\ handler.batch_count = 2
    /\ Len(handler.zip) = 1
    /\ handler.resp.kind = "error"
    /\ handler.resp.archive = <<>>

-----------------------------------------------------------------------------
(* SpecRender: one caller using the generator directly: apply_settings and  *)
(* generate_thumbnail in any order.                                          *)

DimStyle ==
    [PlainStyle EXCEPT !.background_opacity = 10,
                       !.background_color = <<0, 0, 255, 255>>]

RenderStyles == {PlainStyle, RichStyle, DimStyle}
RenderTexts == {<<"a", " ", "^">>}
RenderNumbers == {7}
RenderSizes == {<<1280, 720>>, <<640, 360>>}

NoRender ==
    [op |-> "none", text |-> <<>>, number |-> 0, width |-> 0, height |-> 0,
     canvas |-> NewCanvas(0, 0), sizes |-> <<>>, filename |-> <<>>,
     gen_before |-> NewGenerator, images_before |-> <<>>]

RenderInit ==
    /\ AppIdle
    /\ wrapCall = NoWrapCall
    /\ client = NoClient
    /\ th = NoThreads
    /\ req = NoRequests
    /\ disk = CatalogDisk
    /\ rm = NewResourceManager(CatalogDisk)
    /\ wrapLru = <<>>
    /\ gen = NewGenerator
    /\ lastCall = [this |-> NoRender, prev |-> NoRender]

renderIdle == <<wrapCall, client, th, req, disk, appVars>>

\* apply_settings(settings)
RenderApplySettings ==
    /\ \E st \in RenderStyles :
          LET a == ApplySettings(gen, rm, disk, st)
          IN  gen' = a.gen /\ rm' = a.rm
    /\ lastCall' = [this |-> [NoRender EXCEPT !.op = "apply"], prev |-> NoRender]
    /\ UNCHANGED <<renderIdle, wrapLru>>

\* generator.generate_thumbnail(text, number, width, height)
RenderGenerate ==
    /\ \E text \in RenderTexts, number \in RenderNumbers, size \in RenderSizes :
          \E x \in {GenerateThumbnail(gen, wrapLru, rm, disk, text, number,
                                       size[1], size[2])} :
              /\ gen' = x.gen
              /\ rm' = x.rm
              /\ wrapLru' = x.lru
              /\ lastCall' =
                    [this |-> [op |-> "generate", text |-> text,
                               number |-> number, width |-> size[1],
                               height |-> size[2], canvas |-> x.canvas,
                               sizes |-> x.sizes, filename |-> x.filename,
                               gen_before |-> gen, images_before |-> rm.images],
                     prev |-> lastCall.this]
    /\ UNCHANGED renderIdle

RenderNext == RenderApplySettings \/ RenderGenerate

SpecRender == RenderInit /\ [][RenderNext]_vars

LayerRank(name) ==
    CASE name = "fill" -> 1
      [] name = "background_image" -> 2
      [] name = "pattern" -> 3
      [] name = "text_box" -> 4
      [] name = "text" -> 5
      [] OTHER -> 0

HasLayer(layers, name) == \E j \in DOMAIN layers : layers[j].layer = name

\* C13: a render lays down fill, background image, pattern, text box, text
\* in that order, leaving out exactly the layers that are absent, and the
\* canvas has the requested width and height after every stage.
C13_LayerOrder ==
    lastCall.this.op = "generate" =>
        LET c == lastCall.this.canvas.layers
            g == lastCall.this.gen_before
            size == <<lastCall.this.width, lastCall.this.height>>
        IN  /\ \A j \in DOMAIN c : LayerRank(c[j].layer) > 0
            /\ \A j \in 1..(Len(c) - 1) :
                  LayerRank(c[j].layer) < LayerRank(c[j + 1].layer)
            /\ c[1].layer = "fill"
            /\ c[Len(c)].layer = "text"
            /\ HasLayer(c, "background_image") <=> g.background_image.kind # "none"
            /\ HasLayer(c, "pattern") <=> g.current_pattern.kind # "none"
            /\ HasLayer(c, "text_box") <=> g.text_box_enabled
            /\ Len(lastCall.this.sizes) = 5
            /\ \A j \in DOMAIN lastCall.this.sizes : lastCall.this.sizes[j] = size
            /\ lastCall.this.canvas.size = size

C13_Witness ==
    /\ lastCall.this.op = "generate"
    /\ Len(lastCall.this.canvas.layers) = 5
    /\ lastCall.this.canvas.size = <<640, 360>>
    /\ lastCall.this.canvas.layers[4].layer = "text_box"

\* C14: generate_thumbnail leaves the generator's fields and the cached
\* images as they were, and a second call with the same arguments, with no
\* apply_settings in between, gives the same canvas and filename.
C14_NoCarriedState ==
    lastCall.this.op = "generate" =>
        /\ gen = lastCall.this.gen_before
        /\ rm.images = lastCall.this.images_before
        /\ (/\ lastCall.prev.op = "generate"
            /\ lastCall.prev.text = lastCall.this.text
            /\ lastCall.prev.number = lastCall.this.number
            /\ lastCall.prev.width = lastCall.this.width
            /\ lastCall.prev.height = lastCall.this.height)
              => /\ lastCall.prev.canvas = lastCall.this.canvas
                 /\ lastCall.prev.filename = lastCall.this.filename

C14_Witness ==
    /\ lastCall.this.op = "generate"
    /\ lastCall.prev.op = "generate"
    /\ lastCall.prev.width = lastCall.this.width
    /\ lastCall.prev.canvas = lastCall.this.canvas
    /\ HasLayer(lastCall.this.canvas.layers, "background_image")
    /\ HasLayer(lastCall.this.canvas.layers, "pattern")

Opacities == {0, 10, 50, 100}

BackgroundStages(g) == FillLayers(g) \o BackgroundLayers(g)

\* C16: with no background image, what the two background stages put on the
\* canvas is one fill of the configured RGB at alpha 255, the same whatever
\* background_opacity is.
C16_FillIgnoresOpacity ==
    (lastCall.this.op = "generate"
       /\ lastCall.this.gen_before.background_image.kind = "none") =>
        LET c == lastCall.this.canvas.layers
            g == lastCall.this.gen_before
            drawn == SelectSeq(c, LAMBDA l : l.layer \in {"fill", "background_image"})
        IN  /\ Len(drawn) = 1
            /\ drawn[1].layer = "fill"
            /\ drawn[1].color = SubSeq(g.background_color, 1, 3) \o <<255>>
            /\ \A o \in Opacities :
                  BackgroundStages([g EXCEPT !.background_opacity = o]) = drawn

C16_Witness ==
    /\ lastCall.this.op = "generate"
    /\ lastCall.this.gen_before.background_image.kind = "none"
    /\ lastCall.this.gen_before.background_opacity = 10
    /\ lastCall.this.canvas.layers[1].color = <<0, 0, 255, 255>>

\* C17 as stated: after every get_pil_font call _fonts holds at most
\* FontCacheLimit entries and contains the key just requested.
C17_HoldsRequestedKey ==
    lastCall.op = "get_pil_font" =>
        /\ Len(rm.fonts) <= FontCacheLimit
        /\ DictHas(rm.fonts, FontKey(lastCall.name, lastCall.size))

\* C17: a get_pil_font call that the lru_cache wrapper answers leaves _fonts
\* alone; one that reaches the body and finds the key leaves _fonts alone and
\* the key is in it; one that inserts appends the key and, when that makes
\* more than FontCacheLimit entries, drops exactly the first FontEvictCount
\* keys in insertion order, whatever was used last, and keeps the new key.
\* After every call _fonts holds at most FontCacheLimit entries.
C17_EvictOldestInserted ==
    [][lastCall'.op = "get_pil_font" =>
        LET key == FontKey(lastCall'.name, lastCall'.size)
            wrapped == DictHas(rm.font_lru, <<lastCall'.name, lastCall'.size>>)
            before == DictKeys(rm.fonts)
            after == DictKeys(rm'.fonts)
            grown == Append(before, key)
        IN  /\ Len(after) <= FontCacheLimit
            /\ wrapped => rm'.fonts = rm.fonts
            /\ (~wrapped /\ DictHas(rm.fonts, key)) => rm'.fonts = rm.fonts
            /\ (~wrapped /\ ~DictHas(rm.fonts, key)) =>
                  /\ DictHas(rm'.fonts, key)
                  /\ after = IF Len(grown) > FontCacheLimit
                             THEN SubSeq(grown, FontEvictCount + 1, Len(grown))
                             ELSE grown
    ]_vars

\* an insertion has just evicted: the first key went although it was used
\* three calls before
C17_Witness ==
    /\ lastCall.op = "get_pil_font"
    /\ lastCall.loaded
    /\ Len(rm.fonts) = FontCacheLimit + 1 - FontEvictCount
    /\ DictHas(rm.fonts, FontKey(lastCall.name, lastCall.size))
    /\ ~DictHas(rm.fonts, FontKey("Arial", 1))
    /\ DictHas(rm.font_lru, <<"Arial", 1>>)

RECURSIVE Flatten(_)
Flatten(groups) ==
    IF groups = <<>> THEN <<>> ELSE Head(groups) \o Flatten(Tail(groups))

\* how many words the first k groups hold
RECURSIVE WordCount(_, _)
WordCount(groups, k) ==
    IF k = 0 THEN 0 ELSE WordCount(groups, k - 1) + Len(groups[k])

\* the positions in the word sequence at which a group ends
CutsOf(groups) == {WordCount(groups, k) : k \in 0..Len(groups)}

\* C18: the words of the returned lines, read in order, are the words of the
\* input read paragraph by paragraph; every returned line holds at least one
\* word and is its words joined by single spaces; every explicit line break
\* of the input is a break between returned lines.
C18_WordsPreserved ==
    wrapCall.done =>
        LET paragraphs == SplitNL(wrapCall.text)
            input == [i \in 1..Len(paragraphs) |-> SplitWS(paragraphs[i])]
            output == [i \in 1..Len(wrapCall.lines) |-> SplitWS(wrapCall.lines[i])]
        IN  /\ Flatten(output) = Flatten(input)
            /\ \A i \in 1..Len(wrapCall.lines) :
                  /\ wrapCall.lines[i] # <<>>
                  /\ output[i] # <<>>
                  /\ wrapCall.lines[i] = JoinSp(output[i])
            /\ CutsOf(input) \subseteq CutsOf(output)

\* two paragraphs, the first of two words that the width breaks apart
C18_Witness ==
    /\ wrapCall.done
    /\ wrapCall.text = <<"a", " ", "a", "\n", "W">>
    /\ wrapCall.lines = << <<"a">>, <<"a">>, <<"W">> >>
-----------------------------------------------------------------------------
(* SpecUpload: one worker handling renders, and uploads that may arrive at
   any time *)

CustomStyle ==
    [RichStyle EXCEPT !.background_image = "Custom", !.pattern_enabled = FALSE,
                      !.text_box_enabled = FALSE]

UploadStyles == {PlainStyle, RichStyle, CustomStyle}

NoBackgroundsDisk == [CatalogDisk EXCEPT !.backgrounds = {}]

UploadDisks == {CatalogDisk, NoBackgroundsDisk}

\* <<kind, start_number, batch_count>>
UploadRequests == {<<"single", 1, 1>>, <<"batch", 9, 2>>}

\* how many requests, uploads included, are handled in all
MaxHandled == 3

UploadInit ==
    /\ AppIdle
    /\ wrapCall = NoWrapCall
    /\ lastCall = NoCall
    /\ client = NoClient
    /\ th = NoThreads
    /\ \E d \in UploadDisks : disk = d /\ rm = NewResourceManager(d)
    /\ wrapLru = <<>>
    /\ gen = NewGenerator
    /\ req = NoRequests

\* preview(), download_individual() or generate_batch() starts on the worker;
\* lastCall.op names the handler entered last
HandleRequest ==
    /\ req[1].pc = "idle"
    /\ client.requests < MaxHandled
    /\ client' = [client EXCEPT !.requests = @ + 1]
    /\ lastCall' = [NoCall EXCEPT !.op = "request"]
    /\ \E st \in UploadStyles, b \in UploadRequests :
          req' = [req EXCEPT ![1] = [IdleRequest EXCEPT
                     !.pc = "apply_text", !.kind = b[1], !.settings = st,
                     !.start_number = b[2], !.batch_count = b[3]]]
    /\ UNCHANGED <<wrapCall, th, disk, rm, wrapLru, gen, appVars>>

\* upload_background(), lines 341-346, on a thread of its own; client.fresh
\* counts the uploads
HandleUpload ==
    /\ client.requests < MaxHandled
    /\ client' = [client EXCEPT !.requests = @ + 1, !.fresh = @ + 1]
    /\ lastCall' = [NoCall EXCEPT !.op = "upload"]
    /\ \E size \in UploadSizes :
          gen' = [gen EXCEPT !.background_image =
                     UploadOptimize(Img("upload", "uploads", size[1], size[2]))]
    /\ UNCHANGED <<wrapCall, th, disk, rm, wrapLru, req, appVars>>

UploadNext ==
    \/ HandleRequest
    \/ HandleUpload
    \/ StepApplyText(1)
    \/ StepApplyBackground(1)
    \/ StepApplyPattern(1)
    \/ StepFill(1)
    \/ StepBackgroundImage(1)
    \/ StepPattern(1)
    \/ StepText(1)
    \/ Respond(1)

SpecUpload == UploadInit /\ [][UploadNext]_vars

\* what get_background_image has returned: none, or a catalog background
CatalogOrNone(im) ==
    \/ im.kind = "none"
    \/ /\ im.type = "background"
       /\ \E j \in DOMAIN rm.image_lru :
             rm.image_lru[j].k[2] = "background" /\ rm.image_lru[j].v = im

BackgroundsDrawn(image) ==
    {image[j].image : j \in {i \in DOMAIN image : image[i].layer = "background_image"}}

AppliedBackground(pc) ==
    pc \in {"apply_pattern", "fill", "background_image", "pattern", "text", "respond"}

-----------------------------------------------------------------------------
(* SpecSimpleCache: threads calling get, set and clear of one SimpleCache
   while the clock advances *)

CacheKeys == {"p", "q"}

\* the largest max_size and ttl a cache is constructed with, and the last
\* reading of the clock
MaxCacheSize == 2
MaxTtl == 2
MaxNow == 2

SimpleCacheInit ==
    /\ BaseIdle
    /\ wrapCall = NoWrapCall
    /\ layout = NoLayout
    /\ handler = NoHandler
    /\ now = 0
    /\ caller = NoCallers
    /\ \E m \in 1..MaxCacheSize, l \in 1..MaxTtl :
          preview_cache = [NewSimpleCache EXCEPT !.max_size = m, !.ttl = l]

simpleCacheIdle ==
    <<wrapCall, disk, rm, wrapLru, lastCall, client, th, gen, req, layout, handler>>

\* threading.Lock: `with self.lock` enters when no thread holds the lock
CanAcquireAnyway(c) == TRUE

CanAcquire(c) == c.lock = 0

\* line 37: the entry's last access is less than ttl ago
NotExpiredInclusive(c, key, t) == t - DictGet(c.access_times, key) <= c.ttl

NotExpired(c, key, t) == t - DictGet(c.access_times, key) < c.ttl

\* line 47: min(access_times.keys(), key=...): the first key, in dict order,
\* of the smallest access time
Oldest(access_times) ==
    LET least == CHOOSE a \in {access_times[j].v : j \in DOMAIN access_times} :
                    \A j \in DOMAIN access_times : a <= access_times[j].v
        first == CHOOSE j \in DOMAIN access_times :
                    /\ access_times[j].v = least
                    /\ \A i \in 1..(j - 1) : access_times[i].v # least
    IN  access_times[first].k

\* the end of a method: the result is handed back; a value get has returned
\* is kept, with the times of the call, until the thread's next call
Leave(t, ret) ==
    caller' = [caller EXCEPT ![t] =
                  IF ret.hit
                  THEN [IdleCaller EXCEPT !.op = caller[t].op, !.ret = ret,
                                          !.tested_at = caller[t].tested_at,
                                          !.accessed = caller[t].accessed,
                                          !.returned_at = now]
                  ELSE IdleCaller]

\* get(key), lines 35-36
EnterGet(t) ==
    /\ caller[t].pc = "idle"
    /\ CanAcquire(preview_cache)
    /\ \E key \in CacheKeys :
          caller' = [caller EXCEPT ![t] = [IdleCaller EXCEPT
                        !.pc = "get_test", !.op = "get", !.key = key]]
    /\ preview_cache' = [preview_cache EXCEPT !.lock = t]
    /\ UNCHANGED <<simpleCacheIdle, now>>

\* lines 37 and 40: which branch get takes; None when the key is absent
GetTest(t) ==
    /\ caller[t].pc = "get_test"
    /\ LET c == preview_cache
           key == caller[t].key
       IN  IF DictHas(c.cache, key) /\ DictHas(c.access_times, key)
              /\ NotExpired(c, key, now)
           THEN /\ caller' = [caller EXCEPT ![t].pc = "get_refresh",
                                 ![t].tested_at = now,
                                 ![t].accessed = DictGet(c.access_times, key)]
                /\ UNCHANGED preview_cache
           ELSE IF DictHas(c.cache, key)
           THEN /\ caller' = [caller EXCEPT ![t].pc = "get_del_cache"]
                /\ UNCHANGED preview_cache
           ELSE /\ Leave(t, NoneValue)
                /\ preview_cache' = [c EXCEPT !.lock = 0]
    /\ UNCHANGED <<simpleCacheIdle, now>>

\* line 38
GetRefresh(t) ==
    /\ caller[t].pc = "get_refresh"
    /\ preview_cache' = [preview_cache EXCEPT
            !.access_times = DictSet(@, caller[t].key, now)]
    /\ caller' = [caller EXCEPT ![t].pc = "get_return"]
    /\ UNCHANGED <<simpleCacheIdle, now>>

\* line 39; a key another thread has removed is a KeyError, here None
GetReturn(t) ==
    /\ caller[t].pc = "get_return"
    /\ Leave(t, IF DictHas(preview_cache.cache, caller[t].key)
                THEN [hit |-> TRUE, v |-> DictGet(preview_cache.cache, caller[t].key)]
                ELSE NoneValue)
    /\ preview_cache' = [preview_cache EXCEPT !.lock = 0]
    /\ UNCHANGED <<simpleCacheIdle, now>>

\* line 41, first target of the del
GetDelCache(t) ==
    /\ caller[t].pc = "get_del_cache"
    /\ preview_cache' = [preview_cache EXCEPT !.cache = DictDel(@, caller[t].key)]
    /\ caller' = [caller EXCEPT ![t].pc = "get_del_times"]
    /\ UNCHANGED <<simpleCacheIdle, now>>

\* line 41, second target of the del, and line 42
GetDelTimes(t) ==
    /\ caller[t].pc = "get_del_times"
    /\ preview_cache' = [preview_cache EXCEPT
            !.access_times = DictDel(@, caller[t].key), !.lock = 0]
    /\ Leave(t, NoneValue)
    /\ UNCHANGED <<simpleCacheIdle, now>>

\* set(key, value), lines 44-45; the value stored is stamped with the time
\* of the call
EnterSet(t) ==
    /\ caller[t].pc = "idle"
    /\ CanAcquire(preview_cache)
    /\ \E key \in CacheKeys :
          caller' = [caller EXCEPT ![t] = [IdleCaller EXCEPT
                        !.pc = "set_test", !.op = "set", !.key = key,
                        !.value = now]]
    /\ preview_cache' = [preview_cache EXCEPT !.lock = t]
    /\ UNCHANGED <<simpleCacheIdle, now>>

\* lines 46-47
SetTest(t) ==
    /\ caller[t].pc = "set_test"
    /\ caller' = [caller EXCEPT
            ![t].pc = IF Len(preview_cache.cache) >= preview_cache.max_size
                         /\ preview_cache.access_times # <<>>
                      THEN "set_del_cache" ELSE "set_cache",
            ![t].oldest = IF preview_cache.access_times # <<>>
                          THEN Oldest(preview_cache.access_times) ELSE ""]
    /\ UNCHANGED <<simpleCacheIdle, now, preview_cache>>

\* line 48, first target of the del
SetDelCache(t) ==
    /\ caller[t].pc = "set_del_cache"
    /\ preview_cache' = [preview_cache EXCEPT !.cache = DictDel(@, caller[t].oldest)]
    /\ caller' = [caller EXCEPT ![t].pc = "set_del_times"]
    /\ UNCHANGED <<simpleCacheIdle, now>>

\* line 48, second target of the del
SetDelTimes(t) ==
    /\ caller[t].pc = "set_del_times"
    /\ preview_cache' = [preview_cache EXCEPT
            !.access_times = DictDel(@, caller[t].oldest)]
    /\ caller' = [caller EXCEPT ![t].pc = "set_cache"]
    /\ UNCHANGED <<simpleCacheIdle, now>>

\* line 49
SetCache(t) ==
    /\ caller[t].pc = "set_cache"
    /\ preview_cache' = [preview_cache EXCEPT
            !.cache = DictSet(@, caller[t].key, caller[t].value)]
    /\ caller' = [caller EXCEPT ![t].pc = "set_times"]
    /\ UNCHANGED <<simpleCacheIdle, now>>

\* line 50
SetTimes(t) ==
    /\ caller[t].pc = "set_times"
    /\ preview_cache' = [preview_cache EXCEPT
            !.access_times = DictSet(@, caller[t].key, now), !.lock = 0]
    /\ Leave(t, NoneValue)
    /\ UNCHANGED <<simpleCacheIdle, now>>

\* clear(), lines 52-54
EnterClear(t) ==
    /\ caller[t].pc = "idle"
    /\ CanAcquire(preview_cache)
    /\ caller' = [caller EXCEPT ![t] = [IdleCaller EXCEPT
                     !.pc = "clear_times", !.op = "clear"]]
    /\ preview_cache' = [preview_cache EXCEPT !.lock = t, !.cache = <<>>]
    /\ UNCHANGED <<simpleCacheIdle, now>>

\* line 55
ClearTimes(t) ==
    /\ caller[t].pc = "clear_times"
    /\ preview_cache' = [preview_cache EXCEPT !.access_times = <<>>, !.lock = 0]
    /\ Leave(t, NoneValue)
    /\ UNCHANGED <<simpleCacheIdle, now>>

\* time.time() moves on
Tick ==
    /\ now < MaxNow
    /\ now' = now + 1
    /\ UNCHANGED <<simpleCacheIdle, preview_cache, caller>>

SimpleCacheNext ==
    \/ \E t \in Threads :
          \/ EnterGet(t)
          \/ GetTest(t)
          \/ GetRefresh(t)
          \/ GetReturn(t)
          \/ GetDelCache(t)
          \/ GetDelTimes(t)
          \/ EnterSet(t)
          \/ SetTest(t)
          \/ SetDelCache(t)
          \/ SetDelTimes(t)
          \/ SetCache(t)
          \/ SetTimes(t)
          \/ EnterClear(t)
          \/ ClearTimes(t)
    \/ Tick

SpecSimpleCache == SimpleCacheInit /\ [][SimpleCacheNext]_vars

Returned(t) ==
    caller[t].pc = "idle" /\ caller[t].op = "get" /\ caller[t].ret.hit

====
